---- MODULE Spec2Model ----
(***************************************************************************)
(* Findex cloud: the signed data-plane endpoints (upsert_entries,          *)
(* fetch_entries, insert_chains, fetch_chains), the compare-and-swap       *)
(* upsert of the storage backends (rocksdb.rs, heed.rs, dynamodb.rs and    *)
(* the handler of main.rs that drives a TransactionDB inline), and the     *)
(* catalog of indexes with the metadata cache in front of it.              *)
(*                                                                         *)
(* Bytes are integers 0..255, byte strings are sequences.  Option<Vec<u8>> *)
(* is a sequence, None being the one-element sequence <<-1>>.              *)
(***************************************************************************)
EXTENDS Integers, Sequences, FiniteSets, TLC

\* ------------------------------------------------------------------ bounds

\* Requests started in one behaviour (all clients together).
MaxReqs == 2
MaxSeqReqs == 3
MaxCasReqs == 3
MaxSigReqs == 2
\* Requests started in one behaviour of the catalog and of the tables scenarios.
MaxCatReqs == 3
MaxTabReqs == 3
\* Failing requests answered in one behaviour.
MaxErrReqs == 1
\* Requests started in one behaviour of the write-transaction scenario.
MaxHeedReqs == 3
\* Requests started in one behaviour of the chains scenario.
MaxChnReqs == 2
\* Requests started in one behaviour of the parallel-writes scenario, and the
\* follow-up reads a behaviour follows of a request that fills the stream.
MaxParReqs == 2
MaxParReads == 1
\* Requests started in one behaviour of the retry scenario: three rounds of
\* two clients.
MaxRtyReqs == 6
\* Wall-clock seconds the server's clock can show: Now0 .. Now0 + ClockSpan.
ClockSpan == 1

\* ------------------------------------------------------- program constants

CALLBACK_SIGNATURE_LENGTH == 32
TIMESTAMP_LENGTH == 8
SIGNATURE_SEED_LENGTH == 16
UID_LENGTH == 32
LOCK_TIMEOUT_RETRY == 3
DYNAMODB_NUMBER_OF_PARALLEL_UPSERT_REQUEST == 30

\* ------------------------------------------------------------------ values

None == <<-1>>
Some(v) == v
NoClient == "none"

Clients == {"c1", "c2"}
Backends == {"rocksdb", "inline", "heed", "dynamodb"}

\* A uid is UID_LENGTH bytes; the model's uids differ in their last byte.
UidOf(n) == [i \in 1..UID_LENGTH |-> IF i = UID_LENGTH THEN n ELSE 0]
U1 == UidOf(1)
U2 == UidOf(2)

\* Entry values (ciphertexts): 0xAAAA, 0xDDDD, 0xEEEE, 0xBB, 0xCC.
VA == <<170, 170>>
VD == <<221, 221>>
VE == <<238, 238>>
VB == <<187>>
VC == <<204>>

\* The empty map and map update (EncryptedTable, UpsertData, the key-value store).
EmptyMap == [x \in {} |-> None]
MapPut(m, k, v) == [x \in (DOMAIN m) \cup {k} |-> IF x = k THEN v ELSE m[x]]
MapDel(m, k) == [x \in (DOMAIN m) \ {k} |-> m[x]]
MapGet(m, k) == IF k \in DOMAIN m THEN m[k] ELSE None

\* ------------------------------------------------------------- the catalog

\* i64::to_be_bytes of a small non-negative id.
I64ToBeBytes(n) == [i \in 1..8 |-> IF i = 8 THEN n % 256 ELSE IF i = 7 THEN (n \div 256) % 256 ELSE 0]

\* A 16-byte operation key drawn from the CSPRNG; k names the draw, and
\* different draws give different keys.
SeedOf(k) == [i \in 1..SIGNATURE_SEED_LENGTH |-> IF i = SIGNATURE_SEED_LENGTH THEN k ELSE 0]

\* The subjects of the bearer tokens, and the projects a request can name.
Subjects == {"subA", "subB"}
Projects == {"proj1", "proj2"}
\* BackendProject::get_projects: the projects the directory lists for a subject.
get_projects(sub) == IF sub = "subA" THEN {"proj1"} ELSE Projects

\* The public ids the 5 alphanumeric draws of post_indexes give: "aaaa1", "aaaa2".
P1 == <<97, 97, 97, 97, 49>>
P2 == <<97, 97, 97, 97, 50>>
PublicIds == {P1, P2}

\* The row of the indexes table that the n-th INSERT of post_indexes writes:
\* four fresh keys, created_at the moment of the insert, deleted_at NULL.
NewRow(id, public_id, authz_id, project_uuid, n) ==
  [id |-> id, public_id |-> public_id, authz_id |-> authz_id, project_uuid |-> project_uuid,
   name |-> "test",
   fetch_entries_key |-> SeedOf(10 * n + 1), fetch_chains_key |-> SeedOf(10 * n + 2),
   upsert_entries_key |-> SeedOf(10 * n + 3), insert_chains_key |-> SeedOf(10 * n + 4),
   created_at |-> n, deleted_at |-> None]

\* Two indexes as post_indexes creates them: a 5-character public id and four keys.
Index1 == NewRow(1, P1, "subA", "proj1", 1)
Index2 == NewRow(2, P2, "subA", "proj1", 2)
Indexes == {Index1, Index2}

Ops == {"fetch_entries", "upsert_entries"}
DataOps == {"fetch_entries", "fetch_chains", "upsert_entries", "insert_chains"}
OpKey(index, op) ==
  CASE op = "fetch_entries" -> index.fetch_entries_key
    [] op = "fetch_chains" -> index.fetch_chains_key
    [] op = "insert_chains" -> index.insert_chains_key
    [] OTHER -> index.upsert_entries_key

\* ----------------------------------------------------------- physical keys

PrefixEntries == 0
PrefixChains == 1
PrefixSize == 2
table_to_prefix(table) == IF table = "Entries" THEN PrefixEntries ELSE PrefixChains

\* rocksdb.rs: index.id.as_bytes() ++ [prefix] ++ uid (the id is the string id).
rocksdb_key(index, table, uid) ==
  [t |-> "db", k |-> index.public_id \o <<table_to_prefix(table)>> \o uid]
rocksdb_size_key(index) == [t |-> "db", k |-> index.public_id \o <<PrefixSize>>]

\* heed.rs: index.id.to_be_bytes() ++ [prefix] ++ uid.
heed_key(index, table, uid) ==
  [t |-> "db", k |-> I64ToBeBytes(index.id) \o <<table_to_prefix(table)>> \o uid]
heed_size_key(index) == [t |-> "db", k |-> I64ToBeBytes(index.id) \o <<PrefixSize>>]

\* main.rs: index.id.to_be_bytes() ++ uid, for every endpoint.
inline_key(index, uid) == [t |-> "db", k |-> I64ToBeBytes(index.id) \o uid]

\* dynamodb.rs: one provider table per Table, item id = index id bytes ++ uid.
get_table_name(table) == IF table = "Entries" THEN "findex_cloud_entries" ELSE "findex_cloud_chains"
get_uid_attribute_value(index, uid) == index.public_id \o uid
dynamodb_key(index, table, uid) ==
  [t |-> get_table_name(table), k |-> get_uid_attribute_value(index, uid)]
extract_uid_from_stored_id(id) == SubSeq(id, Len(id) - UID_LENGTH + 1, Len(id))

Key(b, index, table, uid) ==
  CASE b = "rocksdb" -> rocksdb_key(index, table, uid)
    [] b = "heed" -> heed_key(index, table, uid)
    [] b = "inline" -> inline_key(index, uid)
    [] OTHER -> dynamodb_key(index, table, uid)

\* ------------------------------------------------------------ size counter

RECURSIVE BeValue(_)
\* usize::from_be_bytes: the number the bytes denote, big end first.
BeValue(bytes) ==
  IF Len(bytes) = 0 THEN 0
  ELSE BeValue(SubSeq(bytes, 1, Len(bytes) - 1)) * 256 + bytes[Len(bytes)]
UsizeToBeBytes(n) == I64ToBeBytes(n)

\* rocksdb.rs merge_add: the existing counter plus every operand.
RECURSIVE SumOperands(_)
SumOperands(operands) ==
  IF Len(operands) = 0 THEN 0
  ELSE BeValue(Head(operands)) + SumOperands(Tail(operands))
\* A faulty merge_add, to test the size of an insert: it adds every operand twice.
merge_add_twice(existing_value, operands) ==
  UsizeToBeBytes((IF existing_value = None THEN 0 ELSE BeValue(existing_value))
                 + 2 * SumOperands(operands))

merge_add(existing_value, operands) ==
  UsizeToBeBytes((IF existing_value = None THEN 0 ELSE BeValue(existing_value))
                 + SumOperands(operands))

\* ------------------------------------------------------ signature (core.rs)

\* A faulty next_chunk, to test the framing property: off by one, it takes a
\* chunk that is one byte short.
next_chunk_short(bytes, n) ==
  IF Len(bytes) >= n - 1
  THEN [ok |-> TRUE, chunk |-> SubSeq(bytes, 1, IF Len(bytes) < n THEN Len(bytes) ELSE n),
        rest |-> SubSeq(bytes, n + 1, Len(bytes))]
  ELSE [ok |-> FALSE, chunk |-> <<>>, rest |-> <<>>]

\* Iterator::next_chunk::<N>: the first n bytes, or an error when fewer are left.
next_chunk(bytes, n) ==
  IF Len(bytes) >= n
  THEN [ok |-> TRUE, chunk |-> SubSeq(bytes, 1, n), rest |-> SubSeq(bytes, n + 1, Len(bytes))]
  ELSE [ok |-> FALSE, chunk |-> <<>>, rest |-> <<>>]

\* A faulty derivation, to test the binding property: the key depends on the
\* index id only, so every operation of an index has the same key.
derive_without_seed(seed, info) == <<<<>>, info>>

\* KeyingMaterial::derive_kmac_key(seed, info): an ideal key derivation, a
\* different key for every different (seed, info).
derive_kmac_key(seed, info) == <<seed, info>>

\* kmac!(n, key, timestamp, data): an ideal MAC of n bytes; byte i is a symbol
\* that names the inputs, so two tags are equal exactly when key, timestamp
\* and data are.
kmac(n, key, timestamp_bytes, data) == [i \in 1..n |-> <<i, key, timestamp_bytes, data>>]

\* u64::from_be_bytes: a number below 2^64, kept as four 16-bit digits, the
\* most significant first.
U64FromBeBytes(b) == [i \in 1..4 |-> b[2 * i - 1] * 256 + b[2 * i]]
\* SystemTime::now() ... as_secs(): the clock's second as a u64.
U64FromNat(n) == <<0, 0, n \div 65536, n % 65536>>
\* a > b on u64.
U64Gt(a, b) == \E i \in 1..4 : a[i] > b[i] /\ \A j \in 1..(i - 1) : a[j] = b[j]

signature_differs(signature_received, signature_computed) ==
  signature_received # signature_computed

\* A faulty expiry test, to test the freshness property: nothing expires.
never_expired(current_timestamp, expiration_timestamp) == FALSE

is_expired(current_timestamp, expiration_timestamp) ==
  U64Gt(current_timestamp, expiration_timestamp)

SigResult(err, why, data, kmacs) == [err |-> err, why |-> why, data |-> data, kmacs |-> kmacs]

\* A faulty check, to test the order of the checks: expiry before the MAC.
check_expiry_first(body, index_id, seed, now) ==
  LET sig == next_chunk(body, CALLBACK_SIGNATURE_LENGTH)
      ts == next_chunk(sig.rest, TIMESTAMP_LENGTH)
      data == ts.rest
      key == derive_kmac_key(seed, index_id)
      signature_computed == kmac(CALLBACK_SIGNATURE_LENGTH, key, ts.chunk, data)
  IN IF ~sig.ok THEN SigResult("BadRequest", "no signature", <<>>, 0)
     ELSE IF ~ts.ok THEN SigResult("BadRequest", "no timestamp", <<>>, 0)
     ELSE IF is_expired(U64FromNat(now), U64FromBeBytes(ts.chunk))
       THEN SigResult("BadRequest", "expired", <<>>, 0)
     ELSE IF signature_differs(sig.chunk, signature_computed)
       THEN SigResult("InvalidSignature", "", <<>>, 1)
     ELSE SigResult("ok", "", data, 1)

\* check_body_signature, with the clock's second as an input; kmacs counts the
\* MACs computed on the way.
check_body_signature(body, index_id, seed, now) ==
  LET sig == next_chunk(body, CALLBACK_SIGNATURE_LENGTH)
      ts == next_chunk(sig.rest, TIMESTAMP_LENGTH)
      data == ts.rest
      key == derive_kmac_key(seed, index_id)
      signature_computed == kmac(CALLBACK_SIGNATURE_LENGTH, key, ts.chunk, data)
  IN IF ~sig.ok THEN SigResult("BadRequest", "no signature", <<>>, 0)
     ELSE IF ~ts.ok THEN SigResult("BadRequest", "no timestamp", <<>>, 0)
     ELSE IF signature_differs(sig.chunk, signature_computed)
       THEN SigResult("InvalidSignature", "", <<>>, 1)
     ELSE IF is_expired(U64FromNat(now), U64FromBeBytes(ts.chunk))
       THEN SigResult("BadRequest", "expired", <<>>, 1)
     ELSE SigResult("ok", "", data, 1)

\* A faulty status_code, to test the status policy: every failure is the server's.
status_code_internal(err) == 500

\* A faulty status_code, to test the status of the bearer header: only the
\* expired token is forbidden.
status_code_expired_only(err) == IF err = "TokenExpired" THEN 403 ELSE 500

\* The status of the DynamoDb kind that dynamodb.rs raises: errors.rs neither
\* declares the kind nor maps it, the status policy answers a backend failure 500.
DynamoDbStatus == 500

\* errors.rs status_code.
status_code(err) ==
  CASE err = "Sqlx" -> 500
    [] err = "DynamoDb" -> DynamoDbStatus
    [] err = "InvalidSignature" -> 403
    [] err = "WrongEncoding" -> 400
    [] err = "Json" -> 400
    [] err = "WrongIndexPublicId" -> 400
    [] err = "Findex" -> 400
    [] err = "InvalidConfiguration" -> 500
    [] err = "CannotFetchJwks" -> 500
    [] err = "CannotFetchJwksResponse" -> 500
    [] err = "JwksNoKid" -> 500
    [] err = "JwksValidationError" -> 500
    [] err = "TokenKidNotFoundInJwksKeysSet" -> 500
    [] err = "MissingSubInJwtToken" -> 500
    [] err = "InvalidSubInJwtToken" -> 500
    [] err = "TokenExpired" -> 403
    [] err = "FailToBuildBearerHeader" -> 500
    [] err = "BearerError" -> 403
    [] err = "UnknownProject" -> 404
    [] err = "Reqwest" -> 500
    [] err = "Rocksdb" -> 500
    [] err = "Heed" -> 500
    [] err = "BadRequest" -> 400

\* ------------------------------------------------- payload codec (findex)

\* A byte vector on the wire: its length, then its bytes.
WriteVec(v) == <<Len(v)>> \o v
ReadVec(bytes) ==
  IF Len(bytes) = 0 \/ Len(bytes) < 1 + bytes[1]
  THEN [ok |-> FALSE, v |-> <<>>, rest |-> <<>>]
  ELSE [ok |-> TRUE, v |-> SubSeq(bytes, 2, 1 + bytes[1]),
        rest |-> SubSeq(bytes, 2 + bytes[1], Len(bytes))]

\* The rows of a map in the order of their uids' last byte.
MinUid(uids) == CHOOSE u \in uids : \A w \in uids : u[UID_LENGTH] <= w[UID_LENGTH]

RECURSIVE WriteRows(_)
WriteRows(data) ==
  IF DOMAIN data = {} THEN <<>>
  ELSE LET u == MinUid(DOMAIN data)
       IN u \o WriteVec(IF data[u][1] = None THEN <<>> ELSE data[u][1])
            \o WriteVec(data[u][2]) \o WriteRows(MapDel(data, u))
\* UpsertData::try_to_bytes: the number of rows, then uid, old value (empty for
\* None), new value of each row.
UpsertDataToBytes(data) == <<Cardinality(DOMAIN data)>> \o WriteRows(data)

RECURSIVE ReadRows(_, _, _)
ReadRows(bytes, n, acc) ==
  IF n = 0 THEN [ok |-> Len(bytes) = 0, data |-> acc]
  ELSE LET uid == next_chunk(bytes, UID_LENGTH)
           old == ReadVec(uid.rest)
           new == ReadVec(old.rest)
       IN IF ~uid.ok \/ ~old.ok \/ ~new.ok THEN [ok |-> FALSE, data |-> acc]
          ELSE ReadRows(new.rest, n - 1,
                        MapPut(acc, uid.chunk, <<IF Len(old.v) = 0 THEN None ELSE Some(old.v), new.v>>))
\* UpsertData::try_from_bytes.
UpsertDataTryFromBytes(bytes) ==
  IF Len(bytes) = 0 THEN [ok |-> FALSE, data |-> EmptyMap]
  ELSE ReadRows(Tail(bytes), bytes[1], EmptyMap)

RECURSIVE WriteUids(_)
WriteUids(uids) ==
  IF uids = {} THEN <<>>
  ELSE LET u == MinUid(uids) IN u \o WriteUids(uids \ {u})
\* serialize_set: the number of uids, then the uids.
SerializeSet(uids) == <<Cardinality(uids)>> \o WriteUids(uids)

RECURSIVE ReadUids(_, _, _)
ReadUids(bytes, n, acc) ==
  IF n = 0 THEN [ok |-> Len(bytes) = 0, uids |-> acc]
  ELSE LET uid == next_chunk(bytes, UID_LENGTH)
       IN IF ~uid.ok THEN [ok |-> FALSE, uids |-> acc]
          ELSE ReadUids(uid.rest, n - 1, acc \cup {uid.chunk})
\* deserialize_set.
deserialize_set(bytes) ==
  IF Len(bytes) = 0 THEN [ok |-> FALSE, uids |-> {}]
  ELSE ReadUids(Tail(bytes), bytes[1], {})

RECURSIVE WriteTable(_)
WriteTable(table) ==
  IF DOMAIN table = {} THEN <<>>
  ELSE LET u == MinUid(DOMAIN table)
       IN u \o WriteVec(table[u]) \o WriteTable(MapDel(table, u))
\* EncryptedTable::try_to_bytes: the number of rows, then uid and value of each.
EncryptedTableToBytes(table) == <<Cardinality(DOMAIN table)>> \o WriteTable(table)

RECURSIVE ReadTable(_, _, _)
ReadTable(bytes, n, acc) ==
  IF n = 0 THEN [ok |-> Len(bytes) = 0, data |-> acc]
  ELSE LET uid == next_chunk(bytes, UID_LENGTH)
           value == ReadVec(uid.rest)
       IN IF ~uid.ok \/ ~value.ok THEN [ok |-> FALSE, data |-> acc]
          ELSE ReadTable(value.rest, n - 1, MapPut(acc, uid.chunk, value.v))
\* EncryptedTable::try_from_bytes.
EncryptedTableTryFromBytes(bytes) ==
  IF Len(bytes) = 0 THEN [ok |-> FALSE, data |-> EmptyMap]
  ELSE ReadTable(Tail(bytes), bytes[1], EmptyMap)

\* ------------------------------------------------------------ request bodies

\* The body a client holding the index's keys sends: MAC, expiration, payload.
SignedBody(index, op, ts, payload) ==
  kmac(CALLBACK_SIGNATURE_LENGTH, derive_kmac_key(OpKey(index, op), index.public_id),
       I64ToBeBytes(ts), payload)
    \o I64ToBeBytes(ts) \o payload

\* One byte of the body changed in transit (pos = 0: none). A MAC byte becomes
\* a byte no MAC produces, a timestamp or payload byte the next byte value.
Tamper(body, pos) ==
  IF pos = 0 \/ pos > Len(body) THEN body
  ELSE [body EXCEPT ![pos] = IF pos <= CALLBACK_SIGNATURE_LENGTH THEN <<0>> ELSE (@ + 1) % 256]

\* A body as built from p = [sidx, sop, ts, payload, tamper, len]: signed for
\* index sidx and operation sop, one byte changed, cut to len bytes.
BuildBody(p) ==
  LET b == Tamper(SignedBody(p.sidx, p.sop, p.ts, p.payload), p.tamper)
  IN SubSeq(b, 1, IF p.len < Len(b) THEN p.len ELSE Len(b))

\* ------------------------------------------------------------------- state

VARIABLES
  backend,   \* the storage backend the server was started with
  scen,      \* the family of requests the clients send: "conc", "cas", "seq", "sig", "cat", "tab", "err", "heed", "chn", "par", "rty"
  kv,        \* the committed rows: physical key -> bytes
  lock,      \* TransactionDB row locks: physical key -> the client whose transaction holds it
  writer,    \* LMDB: the client whose write transaction is open, or NoClient
  wtxn,      \* LMDB: the open write transaction's view of the rows
  cl,        \* per client: the request it is serving and the response it got last
  nreq,      \* requests started so far
  lastRow,   \* the upsert row decided last: what was stored, what was done with it
  hist,      \* "seq" only: the completed requests, in order
  sigcall,   \* "sig" only: how the last body was built, and what the handler answered
  metadata,  \* the catalog the server was started with: "inline", "sqlite" or "dynamodb"
  catalog,   \* the indexes table: its rows and its insert sequence
  cache,     \* MetadataCache: public id -> Index
  seen,      \* for each subject, the serialized indexes the responses have shown it
  gone,      \* the public ids whose index its owner has deleted
  issued,    \* the indexes the creations have returned, deleted_at set once deleted
  reply      \* "cat" only: the request handled last and what was answered

vars ==
  <<backend, scen, kv, lock, writer, wtxn, cl, nreq, lastRow, hist, sigcall,
    metadata, catalog, cache, seen, gone, issued, reply>>

NoResp == [kind |-> "none", err |-> "", status |-> 0, body |-> EmptyMap]
OkResp(body) == [kind |-> "ok", err |-> "", status |-> 200, body |-> body]
ErrResp(err) == [kind |-> "err", err |-> err, status |-> status_code(err), body |-> EmptyMap]
\* The handler's thread panicked: no response is written.
PanicResp == [kind |-> "panic", err |-> "unwrap on None", status |-> 0, body |-> EmptyMap]

\* No index: what a client that has sent no request has resolved.
NoIndex == NewRow(0, <<>>, "", "", 0)

IdleClient ==
  [pc |-> "idle", op |-> "", index |-> NoIndex, data |-> EmptyMap, todo |-> {},
   cur |-> None, existing |-> None, retry |-> 0, rejected |-> EmptyMap,
   jobs |-> EmptyMap, written |-> {}, mism |-> {}, solo |-> FALSE, resp |-> NoResp]

NoRow ==
  [c |-> NoClient, uid |-> None, old |-> None, new |-> None, pre |-> None, post |-> None,
   out |-> "", rep |-> None, via |-> "", lin |-> FALSE]
NoCall ==
  [op |-> "", idx |-> 0, sidx |-> 0, sop |-> "", ts |-> 0, now |-> 0, tamper |-> 0,
   len |-> 0, full |-> 0, err |-> "", why |-> "", kmacs |-> 0]

\* ------------------------------------------------------------------ inputs

Now0 == 1000
Clock == Now0..(Now0 + ClockSpan)

ScenClients == IF scen \in {"conc", "cas", "heed", "chn", "rty"} THEN Clients ELSE {"c1"}
ReqBound ==
  CASE scen = "conc" -> MaxReqs
    [] scen = "seq" -> MaxSeqReqs
    [] scen = "cas" -> MaxCasReqs
    [] scen = "cat" -> MaxCatReqs
    [] scen = "tab" -> MaxTabReqs
    [] scen = "heed" -> MaxHeedReqs
    [] scen = "chn" -> MaxChnReqs
    [] scen = "par" -> MaxParReqs
    [] scen = "rty" -> MaxRtyReqs
    [] OTHER -> MaxSigReqs

Rows(vals) == {<<o, n>> : o \in {None} \cup vals, n \in vals}
Maps(uids, vals) == UNION {[U -> Rows(vals)] : U \in SUBSET uids}
\* The UpsertData the clients send: in "conc" a row on U1, alone or with an
\* insert of U2; in "seq" and "cas" one row on U1.
ConcData ==
  (Maps({U1}, {VB, VC}) \ {EmptyMap})
  \cup {[u \in {U1, U2} |-> IF u = U1 THEN r ELSE <<None, VB>>] : r \in {<<None, VB>>, <<VB, VC>>}}
CasData == {[u \in {U1} |-> r] : r \in {<<None, VB>>, <<None, VC>>, <<VB, VC>>, <<VC, VB>>}}
SeqData == {[u \in {U1} |-> <<o, n>>] : o \in {None, VA}, n \in {VA, VD, VE}}

FullLen(payload) == CALLBACK_SIGNATURE_LENGTH + TIMESTAMP_LENGTH + Len(payload)

\* A request as the handler gets it: the index the path names, the clock's
\* second, the body, and p, which says how the body was built.
Request(index, now, p) == [idx |-> index, now |-> now, p |-> p, body |-> BuildBody(p)]
ValidRequest(index, op, payload) ==
  Request(index, Now0,
          [sidx |-> index, sop |-> op, ts |-> Now0 + 1, payload |-> payload, tamper |-> 0,
           len |-> FullLen(payload)])

\* The well-formed payload a key holder signs in "sig".
SigPayload(op) ==
  IF op = "upsert_entries" THEN UpsertDataToBytes([u \in {U1} |-> <<None, VA>>])
  ELSE IF op = "insert_chains" THEN EncryptedTableToBytes([u \in {U1} |-> VA])
  ELSE SerializeSet({U1})
TsSet == (Now0 - 1)..(Now0 + ClockSpan + 1)
\* Positions changed in transit: first and last byte of the MAC, of the
\* timestamp and of the payload.
TamperSet(payload) ==
  {1, CALLBACK_SIGNATURE_LENGTH, CALLBACK_SIGNATURE_LENGTH + 1,
   CALLBACK_SIGNATURE_LENGTH + TIMESTAMP_LENGTH}
  \cup (IF Len(payload) = 0 THEN {}
        ELSE {CALLBACK_SIGNATURE_LENGTH + TIMESTAMP_LENGTH + 1, FullLen(payload)})

\* "sig": bodies signed for any index and operation and sent to any index
\* (replay), bodies signed for the endpoint with every expiration around the
\* clock's second, bodies with one byte changed, and bodies cut short.
Replayed(op) ==
  {Request(i, Now0, [sidx |-> si, sop |-> so, ts |-> t, payload |-> SigPayload(op), tamper |-> 0,
                     len |-> FullLen(SigPayload(op))]) :
     i \in Indexes, si \in Indexes, so \in Ops, t \in {Now0 - 1, Now0 + 1}}
Dated(op) ==
  {Request(Index1, n, [sidx |-> Index1, sop |-> op, ts |-> t, payload |-> pl, tamper |-> 0,
                       len |-> FullLen(pl)]) :
     n \in Clock, t \in TsSet, pl \in {SigPayload(op), <<>>, <<7>>}}
Tampered(op) ==
  {Request(Index1, Now0, [sidx |-> Index1, sop |-> op, ts |-> t, payload |-> SigPayload(op),
                          tamper |-> tp, len |-> FullLen(SigPayload(op))]) :
     t \in {Now0 - 1, Now0 + 1}, tp \in TamperSet(SigPayload(op))}
Truncated(op) ==
  {Request(Index1, Now0, [sidx |-> Index1, sop |-> op, ts |-> Now0 + 1,
                          payload |-> SigPayload(op), tamper |-> 0, len |-> ln]) :
     ln \in 0..(CALLBACK_SIGNATURE_LENGTH + TIMESTAMP_LENGTH + 1)}
SigCalls(op) == Replayed(op) \cup Dated(op) \cup Tampered(op) \cup Truncated(op)

ConcUpsertCalls == {ValidRequest(Index1, "upsert_entries", UpsertDataToBytes(d)) : d \in ConcData}
SeqUpsertCalls == {ValidRequest(Index1, "upsert_entries", UpsertDataToBytes(d)) : d \in SeqData}
CasUpsertCalls == {ValidRequest(Index1, "upsert_entries", UpsertDataToBytes(d)) : d \in CasData}
SigUpsertCalls == SigCalls("upsert_entries")
ConcFetchCalls == {ValidRequest(Index1, "fetch_entries", SerializeSet({U1, U2}))}
SeqFetchCalls == {ValidRequest(Index1, "fetch_entries", SerializeSet({U1}))}
SigFetchCalls == SigCalls("fetch_entries")
\* The chain endpoints in "sig": the body a key holder signed, and one body
\* for each way to fail: expired, a byte of the MAC changed, cut inside the
\* timestamp, and a signed payload that does not decode.
SigChainCalls(op) ==
  {Request(Index1, Now0, [sidx |-> Index1, sop |-> op, ts |-> b[1], payload |-> b[2],
                          tamper |-> b[3], len |-> b[4]]) :
     b \in {<<Now0 + 1, SigPayload(op), 0, FullLen(SigPayload(op))>>,
            <<Now0 - 1, SigPayload(op), 0, FullLen(SigPayload(op))>>,
            <<Now0 + 1, SigPayload(op), 1, FullLen(SigPayload(op))>>,
            <<Now0 + 1, SigPayload(op), 0, CALLBACK_SIGNATURE_LENGTH + TIMESTAMP_LENGTH - 1>>,
            <<Now0 + 1, <<7>>, 0, FullLen(<<7>>)>>}}
SigInsertCalls == SigChainCalls("insert_chains")
SigFetchChainsCalls == SigChainCalls("fetch_chains")

\* "cat": requests on the public id "aaaa1" sent with the bearer token of a
\* subject, signed with the keys of the first draw (n = 1) or with keys no
\* index has (n = 0).
Signer(n) == NewRow(0, P1, "", "", n)
CatCalls(op, payload) ==
  {Request(Index1, Now0,
           [sidx |-> Signer(n), sop |-> op, ts |-> Now0 + 1, payload |-> payload, tamper |-> 0,
            len |-> FullLen(payload), by |-> sub]) : n \in 0..1, sub \in Subjects}
CatUpsertCalls == CatCalls("upsert_entries", UpsertDataToBytes([u \in {U1} |-> <<None, VB>>]))
CatFetchCalls == CatCalls("fetch_entries", SerializeSet({U1}))
CatInsertCalls == CatCalls("insert_chains", EncryptedTableToBytes([u \in {U1} |-> VA]))
CatFetchChainsCalls == CatCalls("fetch_chains", SerializeSet({U1}))

\* "tab": one client writing and reading both tables of two indexes.
TabEntries ==
  {<<Index1, [u \in {U1} |-> <<None, VB>>]>>, <<Index1, [u \in {U1} |-> <<VB, VA>>]>>,
   <<Index2, [u \in {U1} |-> <<None, VC>>]>>}
TabChains ==
  {<<Index1, [u \in {U1} |-> VA]>>, <<Index1, [u \in {U1, U2} |-> IF u = U1 THEN VD ELSE VB]>>,
   <<Index2, [u \in {U1} |-> VE]>>}
TabUpsertCalls == {ValidRequest(d[1], "upsert_entries", UpsertDataToBytes(d[2])) : d \in TabEntries}
TabInsertCalls == {ValidRequest(d[1], "insert_chains", EncryptedTableToBytes(d[2])) : d \in TabChains}
TabFetchCalls == {ValidRequest(i, "fetch_entries", SerializeSet({U1, U2})) : i \in Indexes}
TabFetchChainsCalls == {ValidRequest(i, "fetch_chains", SerializeSet({U1, U2})) : i \in Indexes}

\* "heed": two clients writing and reading two uids of both tables of one index.
HeedEntries ==
  {[u \in {U1, U2} |-> <<None, VB>>], [u \in {U1, U2} |-> IF u = U1 THEN <<VB, VC>> ELSE <<None, VC>>]}
HeedChains == {[u \in {U1, U2} |-> IF u = U1 THEN VA ELSE VD]}
HeedUpsertCalls == {ValidRequest(Index1, "upsert_entries", UpsertDataToBytes(d)) : d \in HeedEntries}
HeedInsertCalls == {ValidRequest(Index1, "insert_chains", EncryptedTableToBytes(d)) : d \in HeedChains}
HeedFetchCalls == {ValidRequest(Index1, "fetch_entries", SerializeSet({U1, U2}))}
HeedFetchChainsCalls == {ValidRequest(Index1, "fetch_chains", SerializeSet({U1, U2}))}

\* "par": one client of dynamodb.rs. A request of one row more than the stream
\* runs in parallel, each row an insert of 0xAAAA: sent to the empty index every
\* row is accepted, sent again every row fails its condition and waits for its
\* follow-up read. A request of three rows, two of the former and one more.
ParRows == DYNAMODB_NUMBER_OF_PARALLEL_UPSERT_REQUEST + 1
ParUids == {UidOf(n) : n \in 1..(ParRows + 1)}
ParEntries ==
  {[u \in {UidOf(n) : n \in 1..ParRows} |-> <<None, VA>>],
   [u \in {U1, U2, UidOf(ParRows + 1)} |-> IF u \in {U1, U2} THEN <<None, VB>> ELSE <<None, VC>>]}
ParUpsertCalls == {ValidRequest(Index1, "upsert_entries", UpsertDataToBytes(d)) : d \in ParEntries}

\* "chn": two clients of rocksdb.rs inserting chains and entries into one index
\* and reading its chains.
ChnEntries == {[u \in {U1} |-> <<None, VB>>], [u \in {U2} |-> <<None, VA>>]}
ChnChains == {[u \in {U1, U2} |-> IF u = U1 THEN VA ELSE VD], [u \in {U1} |-> VE]}
ChnUpsertCalls == {ValidRequest(Index1, "upsert_entries", UpsertDataToBytes(d)) : d \in ChnEntries}
ChnInsertCalls == {ValidRequest(Index1, "insert_chains", EncryptedTableToBytes(d)) : d \in ChnChains}
ChnFetchChainsCalls == {ValidRequest(Index1, "fetch_chains", SerializeSet({U1, U2}))}

UpsertCalls ==
  CASE scen = "conc" -> ConcUpsertCalls
    [] scen = "chn" -> ChnUpsertCalls
    [] scen = "par" -> ParUpsertCalls
    [] scen = "heed" -> HeedUpsertCalls
    [] scen = "seq" -> SeqUpsertCalls
    [] scen = "cas" -> CasUpsertCalls
    [] scen = "cat" -> CatUpsertCalls
    [] scen = "tab" -> TabUpsertCalls
    [] OTHER -> SigUpsertCalls
FetchCalls ==
  CASE scen = "conc" -> ConcFetchCalls
    [] scen = "heed" -> HeedFetchCalls
    [] scen = "seq" -> SeqFetchCalls
    [] scen = "cat" -> CatFetchCalls
    [] scen = "tab" -> TabFetchCalls
    [] OTHER -> SigFetchCalls
InsertCalls ==
  CASE scen = "cat" -> CatInsertCalls
    [] scen = "heed" -> HeedInsertCalls
    [] scen = "chn" -> ChnInsertCalls
    [] scen = "sig" -> SigInsertCalls
    [] OTHER -> TabInsertCalls
FetchChainsCalls ==
  CASE scen = "cat" -> CatFetchChainsCalls
    [] scen = "heed" -> HeedFetchChainsCalls
    [] scen = "chn" -> ChnFetchChainsCalls
    [] scen = "sig" -> SigFetchChainsCalls
    [] OTHER -> TabFetchChainsCalls

\* ------------------------------------------------------ catalog operations

\* The catalog is [rows, seq]: the rows of the indexes table (the items of the
\* metadata table) and the number of successful inserts, which gives the next
\* rowid, the next key draw and the next created_at. An Option<Index> is a set
\* of at most one row.

\* A NewIndex whose public id some row of the table already has. The schema of
\* the indexes table is not among the sources: the column is taken to be
\* UNIQUE, soft-deleted rows included, as the catalog's invariant asks.
public_id_taken(rows, public_id) == \E r \in rows : r.public_id = public_id

\* ORDER BY created_at DESC.
RECURSIVE OrderByCreatedAtDesc(_)
OrderByCreatedAtDesc(rows) ==
  IF rows = {} THEN <<>>
  ELSE LET r == CHOOSE x \in rows : \A y \in rows : y.created_at <= x.created_at
       IN <<r>> \o OrderByCreatedAtDesc(rows \ {r})

\* fetch_optional: the first row of the result, if any.
fetch_optional(rows) ==
  IF rows = {} THEN {} ELSE {CHOOSE x \in rows : \A y \in rows : x.id <= y.id}

\* sqlite.rs.
sqlite_get_indexes(rows, project_uuid) ==
  OrderByCreatedAtDesc({r \in rows : r.project_uuid = project_uuid /\ r.deleted_at = None})
sqlite_get_index(rows, public_id) ==
  fetch_optional({r \in rows : r.public_id = public_id /\ r.deleted_at = None})
sqlite_delete_index(rows, public_id, now) ==
  {IF r.public_id = public_id THEN [r EXCEPT !.deleted_at = Some(<<now>>)] ELSE r : r \in rows}
sqlite_create_index(cat, new_index) ==
  IF public_id_taken(cat.rows, new_index.public_id) THEN [err |-> "Sqlx", index |-> {}, cat |-> cat]
  ELSE LET row == [new_index EXCEPT !.id = cat.seq + 1]
       IN [err |-> "ok", index |-> {row}, cat |-> [rows |-> cat.rows \cup {row}, seq |-> cat.seq + 1]]

\* The statements of the handlers of main.rs: those of sqlite.rs, with the
\* owner in the WHERE clause of get and delete.
inline_get_index(rows, public_id, authz_id) ==
  fetch_optional({r \in rows : /\ r.public_id = public_id /\ r.authz_id = authz_id
                               /\ r.deleted_at = None})
inline_delete_index(rows, public_id, authz_id, now) ==
  {IF r.public_id = public_id /\ r.authz_id = authz_id
   THEN [r EXCEPT !.deleted_at = Some(<<now>>)] ELSE r : r \in rows}

\* A time is a number of nanoseconds; Utc::now() at the n-th creation falls on a
\* whole second, a millisecond, a microsecond, then on single nanoseconds.
UtcNow(n) ==
  CASE n <= 1 -> n * 10^9
    [] n = 2 -> 10^9 + 500 * 10^6
    [] n = 3 -> 10^9 + 500 * 10^6 + 1000
    [] OTHER -> 10^9 + 500 * 10^6 + 1000 + (n - 3)

Digits(v, w) == [i \in 1..w |-> (v \div 10^(w - i)) % 10]
RECURSIVE DigitsValue(_)
DigitsValue(d) ==
  IF Len(d) = 0 THEN 0 ELSE DigitsValue(SubSeq(d, 1, Len(d) - 1)) * 10 + d[Len(d)]

\* NaiveDateTime::to_string: the date and time to the second (kept as the
\* number of seconds), then no fraction, or 3, 6 or 9 digits of it, the fewest
\* that lose nothing.
to_string(t) ==
  LET nano == t % 10^9
  IN [secs |-> t \div 10^9,
      frac |-> IF nano = 0 THEN <<>>
               ELSE IF nano % 10^6 = 0 THEN Digits(nano \div 10^6, 3)
               ELSE IF nano % 1000 = 0 THEN Digits(nano \div 1000, 6)
               ELSE Digits(nano, 9)]

\* NaiveDateTime::parse_from_str(.., "%Y-%m-%d %H:%M:%S%.f"): the fraction,
\* if any, is read as the leading digits of the nanoseconds.
parse_from_str(str) ==
  str.secs * 10^9 + DigitsValue(str.frac) * 10^(9 - Len(str.frac))

\* The attributes put_item stores for an index.
index_to_item(index) == [index EXCEPT !.created_at = to_string(@)]

\* dynamodb.rs: an item has an id, a name, the keys and created_at, and nothing
\* else: item_to_index gives no owner, no project and no deleted_at.
item_to_index(item) ==
  [item EXCEPT !.id = 0, !.authz_id = "", !.project_uuid = "", !.deleted_at = None,
               !.created_at = parse_from_str(@)]
dynamodb_get_indexes(items) == {item_to_index(i) : i \in items}
dynamodb_get_index(items, id) == {item_to_index(i) : i \in {x \in items : x.public_id = id}}
dynamodb_delete_index(items, id) == {x \in items : x.public_id # id}
\* PutItem with no condition: the item that has the id, if any, is replaced.
dynamodb_create_index(cat, new_index) ==
  LET index == [new_index EXCEPT !.id = 0, !.authz_id = "", !.project_uuid = "",
                                 !.created_at = UtcNow(cat.seq + 1)]
      item == index_to_item(index)
  IN [err |-> "ok", index |-> {index},
      cat |-> [rows |-> {x \in cat.rows : x.public_id # new_index.public_id} \cup {item},
               seq |-> cat.seq + 1]]

\* ----------------------------------------------------------------- helpers

\* A faulty comparison, to test the compare-and-swap property: every row is written.
always_matches(existing_value, old_value) == TRUE

\* A faulty comparison, to test the progress of retrying clients: no row is written.
never_matches(existing_value, old_value) == FALSE

\* A faulty write condition, to test linearizability: the provider writes
\* whatever is stored.
condition_ignored(stored, old_value) == TRUE

\* existing_value == old_value (rocksdb.rs, main.rs), == old_value.as_deref() (heed.rs).
matches(existing_value, old_value) == existing_value = old_value

\* dynamodb.rs: PutItem under attribute_not_exists(id) when there is no old
\* value, UpdateItem under value_bytes = :old when there is one (false of a
\* missing item).
condition_holds(stored, old_value) ==
  IF old_value = None THEN stored = None ELSE stored # None /\ stored = old_value

EKey(r, uid) == Key(backend, r.index, "Entries", uid)
size_key(index) ==
  IF backend = "heed" THEN heed_size_key(index) ELSE rocksdb_size_key(index)

\* MetadataDatabase::get_index of the catalog the server runs on.
metadata_get_index(rows, public_id) ==
  IF metadata = "dynamodb" THEN dynamodb_get_index(rows, public_id)
  ELSE sqlite_get_index(rows, public_id)

\* A faulty get_index_with_cache, to test the read-through: it asks the catalog
\* at every lookup, and forgets an id the catalog does not know.
get_index_uncached(metadata_cache, rows, public_id) ==
  LET index == metadata_get_index(rows, public_id)
  IN IF index # {}
     THEN [index |-> index,
           cache |-> MapPut(metadata_cache, public_id, CHOOSE i \in index : TRUE)]
     ELSE [index |-> {}, cache |-> MapDel(metadata_cache, public_id)]

\* core.rs: a hit answers from the cache; a miss asks the catalog and keeps
\* what it finds; an unknown id is not kept.
get_index_with_cache(metadata_cache, rows, public_id) ==
  IF public_id \in DOMAIN metadata_cache
  THEN [index |-> {metadata_cache[public_id]}, cache |-> metadata_cache]
  ELSE LET index == metadata_get_index(rows, public_id)
       IN IF index # {}
          THEN [index |-> index,
                cache |-> MapPut(metadata_cache, public_id, CHOOSE i \in index : TRUE)]
          ELSE [index |-> {}, cache |-> metadata_cache]

\* FromRequest for Index: the index the path names, or BadRequest("Unknown index").
from_request(metadata_cache, rows, public_id) ==
  LET r == get_index_with_cache(metadata_cache, rows, public_id)
  IN [err |-> IF r.index = {} THEN "BadRequest" ELSE "ok", index |-> r.index, cache |-> r.cache]

\* A subject can sign a body with the keys of an index only if a response has
\* shown them to it; a body signed with keys no index has needs none.
Holds(k) ==
  IF scen # "cat" \/ k.p.sidx.created_at = 0 THEN TRUE
  ELSE \E i \in seen[k.p.by] :
         /\ i.public_id = k.p.sidx.public_id
         /\ "fetch_entries_key" \in DOMAIN i
         /\ OpKey(i, k.p.sop) = OpKey(k.p.sidx, k.p.sop)

\* A live row of another owner has the public id.
Foreign(sub, public_id) ==
  \E r \in catalog.rows : r.public_id = public_id /\ r.deleted_at = None /\ r.authz_id # sub
\* A live row of the subject has the public id (the dynamodb catalog has no owners).
Owns(sub, public_id) ==
  \E r \in catalog.rows :
    r.public_id = public_id /\ r.deleted_at = None /\ (metadata = "dynamodb" \/ r.authz_id = sub)

NoReply ==
  [op |-> "", sub |-> "", public_id |-> <<>>, foreign |-> FALSE, gone |-> FALSE, hit |-> FALSE,
   err |-> "", status |-> 0, body |-> <<>>]
Reply(op, sub, public_id, err, status, body) ==
  [op |-> op, sub |-> sub, public_id |-> public_id, foreign |-> Foreign(sub, public_id),
   gone |-> public_id \in gone, hit |-> public_id \in DOMAIN cache,
   err |-> err, status |-> status, body |-> body]
\* A data-plane request: the status is 0 until the backend has answered.
DataReply(op, k, err) ==
  IF scen # "cat" THEN reply
  ELSE Reply(op, k.p.by, k.idx.public_id, err,
             IF err = "ok" THEN 0 ELSE status_code(err), <<>>)

Upd(c, r) == [cl EXCEPT ![c] = r]

\* The request is over: the response is written and the per-request state dropped.
Done(r, response) ==
  [r EXCEPT !.pc = "idle", !.resp = response, !.todo = {}, !.cur = None, !.existing = None,
            !.retry = 0, !.jobs = EmptyMap, !.mism = {}]

\* rocksdb.rs, main.rs: the for loop goes to its next row, or ends with Ok(rejected).
NextRow(r) ==
  IF r.todo = {} THEN Done(r, OkResp(r.rejected))
  ELSE [r EXCEPT !.pc = "loop", !.cur = None, !.existing = None, !.retry = 0]

\* dynamodb.rs: the stream of jobs ends when every job has given its result.
DynNext(r) ==
  IF r.todo = {} /\ DOMAIN r.jobs = {} THEN Done(r, OkResp(r.rejected)) ELSE r

\* History kept for the properties: for every row of a running upsert, whether
\* the committed value has, at some moment since the request began, been one
\* the row's old value does not match.
Observe(cs, store) ==
  [c \in Clients |->
     IF cs[c].pc = "idle" \/ cs[c].op # "upsert_entries" THEN cs[c]
     ELSE [cs[c] EXCEPT !.mism = @ \cup
             {u \in DOMAIN cs[c].data :
                ~(MapGet(store, EKey(cs[c], u)) = cs[c].data[u][1])}]]

Row(c, r, u, pre, post, out, rep, via) ==
  [c |-> c, uid |-> u, old |-> r.data[u][1], new |-> r.data[u][2], pre |-> pre, post |-> post,
   out |-> out, rep |-> rep, via |-> via,
   lin |-> IF out = "accepted" THEN (pre = r.data[u][1]) ELSE u \in r.mism]

HistAfter(c) ==
  IF scen \in {"seq", "tab", "heed", "chn", "par", "rty"} /\ cl'[c].pc = "idle"
  THEN Append(hist, [c |-> c, op |-> cl'[c].op, index |-> cl'[c].index.public_id, data |-> cl'[c].data,
                     written |-> cl'[c].written, resp |-> cl'[c].resp])
  ELSE hist

\* A faulty fetch, to test read-your-writes: it finds nothing.
fetch_nothing(store, index, table, uids) == EmptyMap

\* fetch of rocksdb.rs, heed.rs, main.rs: the uids that have a value, with it.
local_fetch(store, index, table, uids) ==
  LET found == {u \in uids : MapGet(store, Key(backend, index, table, u)) # None}
  IN [u \in found |-> MapGet(store, Key(backend, index, table, u))]

\* fetch of dynamodb.rs: the items BatchGetItem returns, keyed by the uid
\* taken from the tail of the stored id.
dynamodb_fetch(store, index, table, uids) ==
  LET items == {dynamodb_key(index, table, u) : u \in uids} \cap DOMAIN store
  IN [u \in {extract_uid_from_stored_id(i.k) : i \in items} |->
        store[CHOOSE i \in items : extract_uid_from_stored_id(i.k) = u]]

fetch(store, index, table, uids) ==
  IF backend = "dynamodb" THEN dynamodb_fetch(store, index, table, uids)
  ELSE local_fetch(store, index, table, uids)

SigCall(op, k, chk, err) ==
  IF scen # "sig" THEN sigcall
  ELSE [op |-> op, idx |-> k.idx.id, sidx |-> k.p.sidx.id, sop |-> k.p.sop, ts |-> k.p.ts,
        now |-> k.now, tamper |-> k.p.tamper, len |-> k.p.len, full |-> FullLen(k.p.payload),
        err |-> err, why |-> chk.why, kmacs |-> chk.kmacs]

\* --------------------------------------------------------------- endpoints

\* History kept for the properties in "rty": whether the request that client c
\* begins finds no other request running and, under each of its uids, the old
\* value of its row; a request that was running when c began is not alone.
Overlaps(c, cs) ==
  IF scen # "rty" THEN cs
  ELSE [x \in Clients |->
          IF x = c
          THEN [cs[x] EXCEPT !.solo =
                  /\ \A y \in Clients \ {c} : cl[y].pc = "idle"
                  /\ \A u \in DOMAIN cs[x].data : MapGet(kv, EKey(cs[x], u)) = cs[x].data[u][1]]
          ELSE IF cs[x].pc # "idle" THEN [cs[x] EXCEPT !.solo = FALSE]
          ELSE cs[x]]

\* POST /indexes/{public_id}/upsert_entries: the signature check, the decoding
\* of the payload, then the backend's upsert_entries, which the steps below run.
upsert_entries(c, k) ==
  /\ c \in ScenClients
  /\ cl[c].pc = "idle"
  /\ nreq < ReqBound
  /\ Holds(k)
  /\ LET ext == from_request(cache, catalog.rows, k.idx.public_id)
         index == IF ext.index = {} THEN k.idx ELSE CHOOSE i \in ext.index : TRUE
         chk == IF ext.err # "ok" THEN SigResult(ext.err, "unknown index", <<>>, 0)
                ELSE check_body_signature(k.body, index.public_id, index.upsert_entries_key, k.now)
         dec == UpsertDataTryFromBytes(chk.data)
         err == IF chk.err # "ok" THEN chk.err ELSE IF ~dec.ok THEN "Findex" ELSE "ok"
         r0 == [IdleClient EXCEPT !.op = "upsert_entries", !.index = index]
         r1 == [r0 EXCEPT !.data = dec.data, !.todo = DOMAIN dec.data]
     IN /\ cl' = Overlaps(c, Observe(Upd(c, IF err # "ok" THEN Done(r0, ErrResp(err))
                               ELSE IF backend = "heed" THEN [r1 EXCEPT !.pc = "begin"]
                               ELSE IF backend = "dynamodb" THEN DynNext([r1 EXCEPT !.pc = "stream"])
                               ELSE NextRow(r1)), kv))
        /\ sigcall' = SigCall("upsert_entries", k, chk, err)
        /\ cache' = ext.cache
        /\ reply' = DataReply("upsert_entries", k, err)
  /\ nreq' = nreq + 1
  /\ hist' = HistAfter(c)
  /\ UNCHANGED <<backend, scen, kv, lock, writer, wtxn, lastRow, metadata, catalog, seen, gone, issued>>

\* POST /indexes/{public_id}/fetch_entries.
fetch_entries(c, k) ==
  /\ c \in ScenClients
  /\ cl[c].pc = "idle"
  /\ nreq < ReqBound
  /\ Holds(k)
  /\ LET ext == from_request(cache, catalog.rows, k.idx.public_id)
         index == IF ext.index = {} THEN k.idx ELSE CHOOSE i \in ext.index : TRUE
         chk == IF ext.err # "ok" THEN SigResult(ext.err, "unknown index", <<>>, 0)
                ELSE check_body_signature(k.body, index.public_id, index.fetch_entries_key, k.now)
         dec == deserialize_set(chk.data)
         err == IF chk.err # "ok" THEN chk.err ELSE IF ~dec.ok THEN "Findex" ELSE "ok"
         r0 == [IdleClient EXCEPT !.op = "fetch_entries", !.index = index]
     IN /\ cl' = Upd(c, IF err # "ok" THEN Done(r0, ErrResp(err))
                        ELSE Done(r0, OkResp(fetch(kv, index, "Entries", dec.uids))))
        /\ sigcall' = SigCall("fetch_entries", k, chk, err)
        /\ cache' = ext.cache
        /\ reply' = DataReply("fetch_entries", k, err)
  /\ nreq' = nreq + 1
  /\ hist' = HistAfter(c)
  /\ UNCHANGED <<backend, scen, kv, lock, writer, wtxn, lastRow, metadata, catalog, seen, gone, issued>>

\* ---------------------------------------------------------- chain endpoints

RECURSIVE SumLen(_)
SumLen(table) ==
  IF DOMAIN table = {} THEN 0
  ELSE LET u == MinUid(DOMAIN table) IN Len(table[u]) + SumLen(MapDel(table, u))

\* A faulty put, to test last-writer-wins: it keeps the value a uid already has.
put_chains_if_absent(store, index, table) ==
  LET K(u) == Key(backend, index, "Chains", u)
  IN [x \in DOMAIN store \cup {K(u) : u \in DOMAIN table} |->
        IF x \in DOMAIN store THEN store[x]
        ELSE table[CHOOSE u \in DOMAIN table : K(u) = x]]

\* The store after a put of every row of the table under its Chains key.
PutChains(store, index, table) ==
  LET K(u) == Key(backend, index, "Chains", u)
  IN [x \in DOMAIN store \cup {K(u) : u \in DOMAIN table} |->
        IF \E u \in DOMAIN table : K(u) = x
        THEN table[CHOOSE u \in DOMAIN table : K(u) = x] ELSE store[x]]

\* A faulty insert_chains, to test the size counter: it leaves the counter alone.
insert_chains_unsized(store, index, data) == PutChains(store, index, data)

\* rocksdb.rs: a put for every row, then one merge of the bytes added.
rocksdb_insert_chains(store, index, data) ==
  MapPut(PutChains(store, index, data), rocksdb_size_key(index),
         merge_add(MapGet(store, rocksdb_size_key(index)), <<UsizeToBeBytes(SumLen(data))>>))

\* heed.rs: the counter read, the rows and the counter put, in one write transaction.
heed_insert_chains(store, index, data) ==
  LET size == IF MapGet(store, heed_size_key(index)) = None THEN 0
              ELSE BeValue(MapGet(store, heed_size_key(index)))
  IN MapPut(PutChains(store, index, data), heed_size_key(index), I64ToBeBytes(size + SumLen(data)))

\* dynamodb.rs (BatchWriteItem of put requests) and main.rs (a put for every
\* row): the rows, and no counter.
plain_insert_chains(store, index, data) == PutChains(store, index, data)

backend_insert_chains(store, index, data) ==
  CASE backend = "rocksdb" -> rocksdb_insert_chains(store, index, data)
    [] backend = "heed" -> heed_insert_chains(store, index, data)
    [] OTHER -> plain_insert_chains(store, index, data)

\* A faulty insert_chains, to test the order of check and storage: it puts the
\* rows of the payload before it checks the body.
insert_chains_unchecked(c, k) ==
  /\ c \in ScenClients
  /\ cl[c].pc = "idle"
  /\ nreq < ReqBound
  /\ Holds(k)
  /\ LET ext == from_request(cache, catalog.rows, k.idx.public_id)
         index == IF ext.index = {} THEN k.idx ELSE CHOOSE i \in ext.index : TRUE
         chk == IF ext.err # "ok" THEN SigResult(ext.err, "unknown index", <<>>, 0)
                ELSE check_body_signature(k.body, index.public_id, index.insert_chains_key, k.now)
         dec == EncryptedTableTryFromBytes(chk.data)
         raw == EncryptedTableTryFromBytes(k.p.payload)
         err == IF chk.err # "ok" THEN chk.err ELSE IF ~dec.ok THEN "Findex" ELSE "ok"
         r0 == [IdleClient EXCEPT !.op = "insert_chains", !.index = index]
         r1 == [r0 EXCEPT !.data = [u \in DOMAIN dec.data |-> <<None, dec.data[u]>>],
                          !.written = DOMAIN dec.data]
     IN /\ kv' = IF raw.ok THEN backend_insert_chains(kv, index, raw.data) ELSE kv
        /\ cl' = Observe(Upd(c, IF err # "ok" THEN Done(r0, ErrResp(err))
                               ELSE Done(r1, OkResp(EmptyMap))), kv')
        /\ sigcall' = SigCall("insert_chains", k, chk, err)
        /\ cache' = ext.cache
        /\ reply' = DataReply("insert_chains", k, err)
  /\ nreq' = nreq + 1
  /\ hist' = HistAfter(c)
  /\ UNCHANGED <<backend, scen, lock, writer, wtxn, lastRow, metadata, catalog, seen, gone, issued>>

\* POST /indexes/{public_id}/insert_chains. The puts wait for the row locks of
\* the open transactions, the write transaction of heed.rs for the one before it.
\* With one client nothing runs between the puts and the counter's update, and
\* the request is one step; in "chn" the puts and the merge of rocksdb.rs are
\* the steps put_chain and merge_size below.
insert_chains(c, k) ==
  /\ c \in ScenClients
  /\ cl[c].pc = "idle"
  /\ nreq < ReqBound
  /\ Holds(k)
  /\ LET ext == from_request(cache, catalog.rows, k.idx.public_id)
         index == IF ext.index = {} THEN k.idx ELSE CHOOSE i \in ext.index : TRUE
         chk == IF ext.err # "ok" THEN SigResult(ext.err, "unknown index", <<>>, 0)
                ELSE check_body_signature(k.body, index.public_id, index.insert_chains_key, k.now)
         dec == EncryptedTableTryFromBytes(chk.data)
         err == IF chk.err # "ok" THEN chk.err ELSE IF ~dec.ok THEN "Findex" ELSE "ok"
         r0 == [IdleClient EXCEPT !.op = "insert_chains", !.index = index]
         r1 == [r0 EXCEPT !.data = [u \in DOMAIN dec.data |-> <<None, dec.data[u]>>],
                          !.written = DOMAIN dec.data]
         r2 == [r1 EXCEPT !.pc = "puts", !.todo = DOMAIN dec.data, !.written = {}]
     IN /\ err = "ok" =>
             /\ writer = NoClient
             /\ \A u \in DOMAIN dec.data : Key(backend, index, "Chains", u) \notin DOMAIN lock
        /\ kv' = IF err # "ok" \/ scen = "chn" THEN kv
                 ELSE backend_insert_chains(kv, index, dec.data)
        /\ cl' = Observe(Upd(c, IF err # "ok" THEN Done(r0, ErrResp(err))
                               ELSE IF scen = "chn" THEN r2
                               ELSE Done(r1, OkResp(EmptyMap))), kv')
        /\ sigcall' = SigCall("insert_chains", k, chk, err)
        /\ cache' = ext.cache
        /\ reply' = DataReply("insert_chains", k, err)
  /\ nreq' = nreq + 1
  /\ hist' = HistAfter(c)
  /\ UNCHANGED <<backend, scen, lock, writer, wtxn, lastRow, metadata, catalog, seen, gone, issued>>

\* rocksdb.rs insert_chains, one turn of its loop: self.0.put of a chain row,
\* outside any transaction.
put_chain(c, u) ==
  /\ backend = "rocksdb"
  /\ cl[c].pc = "puts"
  /\ u \in cl[c].todo
  /\ kv' = MapPut(kv, rocksdb_key(cl[c].index, "Chains", u), cl[c].data[u][2])
  /\ cl' = Upd(c, [cl[c] EXCEPT !.todo = @ \ {u}, !.written = @ \cup {u}])
  /\ UNCHANGED <<backend, scen, lock, writer, wtxn, nreq, lastRow, hist, sigcall, metadata, catalog, cache, seen, gone, issued, reply>>

\* A faulty put_fails, to test what a failed insert_chains leaves: it takes back
\* the rows put before the error, as a transaction would.
put_fails_rollback(c, u) ==
  /\ backend = "rocksdb"
  /\ cl[c].pc = "puts"
  /\ u \in cl[c].todo
  /\ kv' = [x \in DOMAIN kv \ {rocksdb_key(cl[c].index, "Chains", w) : w \in cl[c].written} |-> kv[x]]
  /\ cl' = Upd(c, Done(cl[c], ErrResp("Rocksdb")))
  /\ hist' = HistAfter(c)
  /\ UNCHANGED <<backend, scen, lock, writer, wtxn, nreq, lastRow, sigcall, metadata, catalog, cache, seen, gone, issued, reply>>

\* The put of a chain row fails (an I/O error of the store): `?` returns the
\* error, the rows put before it stay and the merge is never reached.
put_fails(c, u) ==
  /\ backend = "rocksdb"
  /\ cl[c].pc = "puts"
  /\ u \in cl[c].todo
  /\ cl' = Upd(c, Done(cl[c], ErrResp("Rocksdb")))
  /\ hist' = HistAfter(c)
  /\ UNCHANGED <<backend, scen, kv, lock, writer, wtxn, nreq, lastRow, sigcall, metadata, catalog, cache, seen, gone, issued, reply>>

\* A faulty merge_size, to test the counter under concurrency: it puts the
\* bytes of the request where it should merge them.
merge_size_overwrite(c) ==
  /\ backend = "rocksdb"
  /\ cl[c].pc = "puts"
  /\ cl[c].todo = {}
  /\ LET data == [u \in DOMAIN cl[c].data |-> cl[c].data[u][2]]
     IN kv' = MapPut(kv, rocksdb_size_key(cl[c].index), UsizeToBeBytes(SumLen(data)))
  /\ cl' = Upd(c, Done(cl[c], OkResp(EmptyMap)))
  /\ hist' = HistAfter(c)
  /\ UNCHANGED <<backend, scen, lock, writer, wtxn, nreq, lastRow, sigcall, metadata, catalog, cache, seen, gone, issued, reply>>

\* rocksdb.rs insert_chains after its loop: self.0.merge of the bytes put.
merge_size(c) ==
  /\ backend = "rocksdb"
  /\ cl[c].pc = "puts"
  /\ cl[c].todo = {}
  /\ LET data == [u \in DOMAIN cl[c].data |-> cl[c].data[u][2]]
     IN kv' = MapPut(kv, rocksdb_size_key(cl[c].index),
                     merge_add(MapGet(kv, rocksdb_size_key(cl[c].index)),
                               <<UsizeToBeBytes(SumLen(data))>>))
  /\ cl' = Upd(c, Done(cl[c], OkResp(EmptyMap)))
  /\ hist' = HistAfter(c)
  /\ UNCHANGED <<backend, scen, lock, writer, wtxn, nreq, lastRow, sigcall, metadata, catalog, cache, seen, gone, issued, reply>>

\* POST /indexes/{public_id}/fetch_chains.
fetch_chains(c, k) ==
  /\ c \in ScenClients
  /\ cl[c].pc = "idle"
  /\ nreq < ReqBound
  /\ Holds(k)
  /\ LET ext == from_request(cache, catalog.rows, k.idx.public_id)
         index == IF ext.index = {} THEN k.idx ELSE CHOOSE i \in ext.index : TRUE
         chk == IF ext.err # "ok" THEN SigResult(ext.err, "unknown index", <<>>, 0)
                ELSE check_body_signature(k.body, index.public_id, index.fetch_chains_key, k.now)
         dec == deserialize_set(chk.data)
         err == IF chk.err # "ok" THEN chk.err ELSE IF ~dec.ok THEN "Findex" ELSE "ok"
         r0 == [IdleClient EXCEPT !.op = "fetch_chains", !.index = index]
     IN /\ cl' = Upd(c, IF err # "ok" THEN Done(r0, ErrResp(err))
                        ELSE Done(r0, OkResp(fetch(kv, index, "Chains", dec.uids))))
        /\ sigcall' = SigCall("fetch_chains", k, chk, err)
        /\ cache' = ext.cache
        /\ reply' = DataReply("fetch_chains", k, err)
  /\ nreq' = nreq + 1
  /\ hist' = HistAfter(c)
  /\ UNCHANGED <<backend, scen, kv, lock, writer, wtxn, lastRow, metadata, catalog, seen, gone, issued>>

\* ------------------------------------------------------ catalog endpoints

\* set_size: the counter under the index's size key (rocksdb.rs, heed.rs),
\* nothing where no counter is kept (dynamodb.rs).
set_size(store, index) ==
  IF backend \in {"rocksdb", "heed"}
  THEN IF MapGet(store, size_key(index)) = None THEN Some(<<0>>)
       ELSE Some(<<BeValue(MapGet(store, size_key(index)))>>)
  ELSE None

\* The size a catalog response shows: main.rs reads it from the stats table,
\* 0 without statistics; the other catalogs leave it to the backend's set_size.
SizeOf(index) == IF metadata = "inline" THEN Some(<<0>>) ELSE set_size(kv, index)

\* derive(Serialize) of Index: every field but id and deleted_at.
Serialize(index, size) ==
  [public_id |-> index.public_id, authz_id |-> index.authz_id,
   project_uuid |-> index.project_uuid, name |-> index.name,
   fetch_entries_key |-> index.fetch_entries_key, fetch_chains_key |-> index.fetch_chains_key,
   upsert_entries_key |-> index.upsert_entries_key, insert_chains_key |-> index.insert_chains_key,
   size |-> size, created_at |-> index.created_at]

\* What a response has shown to its reader.
Shown(sub, body) == [seen EXCEPT ![sub] = @ \cup {body[i] : i \in DOMAIN body}]

\* The orders in which a Scan can list the items.
ScanOrders(items) ==
  {q \in [1..Cardinality(items) -> items] : \A i \in items : \E n \in DOMAIN q : q[n] = i}

\* POST /indexes: the membership check, four keys and a public id drawn at
\* random, then the INSERT (create_index of the catalog).
post_indexes(sub, project_uuid, public_id) ==
  /\ scen = "cat"
  /\ nreq < ReqBound
  /\ nreq' = nreq + 1
  /\ IF project_uuid \notin get_projects(sub)
     THEN /\ reply' = Reply("post_indexes", sub, public_id, "UnknownProject",
                            status_code("UnknownProject"), <<>>)
          /\ UNCHANGED <<catalog, seen, gone, issued>>
     ELSE LET new_index == NewRow(0, public_id, sub, project_uuid, catalog.seq + 1)
              res == IF metadata = "dynamodb" THEN dynamodb_create_index(catalog, new_index)
                     ELSE sqlite_create_index(catalog, new_index)
              body == IF res.err # "ok" THEN <<>>
                      ELSE <<Serialize(CHOOSE i \in res.index : TRUE,
                                       IF metadata = "dynamodb" THEN Some(<<0>>) ELSE None)>>
          IN /\ catalog' = res.cat
             /\ reply' = Reply("post_indexes", sub, public_id, res.err,
                               IF res.err = "ok" THEN 200 ELSE status_code(res.err), body)
             /\ seen' = Shown(sub, body)
             /\ issued' = issued \cup res.index
             /\ gone' = IF res.err = "ok" THEN gone \ {public_id} ELSE gone
  /\ UNCHANGED <<backend, scen, kv, lock, writer, wtxn, cl, lastRow, hist, sigcall, metadata, cache>>

\* GET /indexes?project_uuid=...: the live indexes of the project, newest
\* first; the dynamodb catalog scans its whole table.
get_indexes(sub, project_uuid) ==
  /\ scen = "cat"
  /\ nreq < ReqBound
  /\ nreq' = nreq + 1
  /\ IF project_uuid \notin get_projects(sub)
     THEN /\ reply' = Reply("get_indexes", sub, <<>>, "UnknownProject",
                            status_code("UnknownProject"), <<>>)
          /\ seen' = seen
     ELSE \E indexes \in IF metadata = "dynamodb"
                         THEN ScanOrders(dynamodb_get_indexes(catalog.rows))
                         ELSE {sqlite_get_indexes(catalog.rows, project_uuid)} :
            LET body == [i \in DOMAIN indexes |-> Serialize(indexes[i], SizeOf(indexes[i]))]
            IN /\ reply' = Reply("get_indexes", sub, <<>>, "ok", 200, body)
               /\ seen' = Shown(sub, body)
  /\ UNCHANGED <<backend, scen, kv, lock, writer, wtxn, cl, lastRow, hist, sigcall,
                 metadata, catalog, cache, gone, issued>>

\* GET /indexes/{public_id}.
get_index(sub, public_id) ==
  /\ scen = "cat"
  /\ nreq < ReqBound
  /\ nreq' = nreq + 1
  /\ LET index == IF metadata = "inline" THEN inline_get_index(catalog.rows, public_id, sub)
                  ELSE metadata_get_index(catalog.rows, public_id)
         body == IF index = {} THEN <<>>
                 ELSE LET i == CHOOSE x \in index : TRUE IN <<Serialize(i, SizeOf(i))>>
     IN /\ reply' = IF index = {}
                    THEN Reply("get_index", sub, public_id, "BadRequest",
                               status_code("BadRequest"), <<>>)
                    ELSE Reply("get_index", sub, public_id, "ok", 200, body)
        /\ seen' = Shown(sub, body)
  /\ UNCHANGED <<backend, scen, kv, lock, writer, wtxn, cl, lastRow, hist, sigcall,
                 metadata, catalog, cache, gone, issued>>

\* DELETE /indexes/{public_id}: deleted_at is set (the item is removed, in the
\* dynamodb catalog), and the answer is Ok whatever was there. The metadata
\* cache is left as it is.
delete_index(sub, public_id) ==
  /\ scen = "cat"
  /\ nreq < ReqBound
  /\ nreq' = nreq + 1
  /\ catalog' = [catalog EXCEPT !.rows =
                   CASE metadata = "inline" -> inline_delete_index(@, public_id, sub, Now0)
                     [] metadata = "sqlite" -> sqlite_delete_index(@, public_id, Now0)
                     [] OTHER -> dynamodb_delete_index(@, public_id)]
  /\ reply' = Reply("delete_index", sub, public_id, "ok", 200, <<>>)
  /\ gone' = IF Owns(sub, public_id) THEN gone \cup {public_id} ELSE gone
  /\ issued' = {IF i.public_id = public_id /\ Owns(sub, public_id)
                THEN [i EXCEPT !.deleted_at = Some(<<Now0>>)] ELSE i : i \in issued}
  /\ UNCHANGED <<backend, scen, kv, lock, writer, wtxn, cl, lastRow, hist, sigcall,
                 metadata, cache, seen>>

\* ----------------------------------- transactional backend (rocksdb.rs, main.rs)

\* A faulty get_for_update, to test the race of two inserts: it reads without
\* taking the row lock.
get_without_lock(c, u) ==
  /\ backend \in {"rocksdb", "inline"}
  /\ cl[c].pc = "loop"
  /\ u \in cl[c].todo
  /\ lock' = lock
  /\ cl' = Upd(c, [cl[c] EXCEPT !.pc = "locked", !.cur = u, !.todo = @ \ {u},
                                !.existing = MapGet(kv, EKey(cl[c], u))])
  /\ UNCHANGED <<backend, scen, kv, writer, wtxn, nreq, lastRow, hist, sigcall, metadata, catalog, cache, seen, gone, issued, reply>>

\* transaction.get_for_update(&key, true): takes the row lock and reads.
get_for_update(c, u) ==
  /\ backend \in {"rocksdb", "inline"}
  /\ cl[c].pc = "loop"
  /\ u \in cl[c].todo
  /\ EKey(cl[c], u) \notin DOMAIN lock
  /\ lock' = MapPut(lock, EKey(cl[c], u), c)
  /\ cl' = Upd(c, [cl[c] EXCEPT !.pc = "locked", !.cur = u, !.todo = @ \ {u},
                                !.existing = MapGet(kv, EKey(cl[c], u))])
  /\ UNCHANGED <<backend, scen, kv, writer, wtxn, nreq, lastRow, hist, sigcall, metadata, catalog, cache, seen, gone, issued, reply>>

\* get_for_update fails with "Timeout waiting to lock key": another
\* transaction held the lock for the whole wait. The transaction is rolled back.
lock_timeout(c, u) ==
  /\ backend \in {"rocksdb", "inline"}
  /\ cl[c].pc = "loop"
  /\ u \in cl[c].todo
  /\ EKey(cl[c], u) \in DOMAIN lock
  /\ cl' = Upd(c, [cl[c] EXCEPT !.pc = "reread", !.cur = u, !.todo = @ \ {u},
                                !.retry = LOCK_TIMEOUT_RETRY])
  /\ UNCHANGED <<backend, scen, kv, lock, writer, wtxn, nreq, lastRow, hist, sigcall, metadata, catalog, cache, seen, gone, issued, reply>>

\* A faulty retry loop, to test its termination: it never gives up.
timeout_read_forever(c) ==
  /\ cl[c].pc = "reread"
  /\ LET r == cl[c]
         u == r.cur
         v == MapGet(kv, EKey(r, u))
     IN IF v # None
        THEN /\ cl' = Upd(c, NextRow([r EXCEPT !.rejected = MapPut(@, u, v)]))
             /\ lastRow' = Row(c, r, u, v, v, "rejected", v, "timeout")
        ELSE /\ cl' = cl
             /\ lastRow' = lastRow
  /\ hist' = HistAfter(c)
  /\ UNCHANGED <<backend, scen, kv, lock, writer, wtxn, nreq, sigcall, metadata, catalog, cache, seen, gone, issued, reply>>

\* One turn of the retry loop: a read outside any transaction.
timeout_read(c) ==
  /\ cl[c].pc = "reread"
  /\ LET r == cl[c]
         u == r.cur
         v == MapGet(kv, EKey(r, u))
     IN IF v # None
        THEN /\ cl' = Upd(c, NextRow([r EXCEPT !.rejected = MapPut(@, u, v)]))
             /\ lastRow' = Row(c, r, u, v, v, "rejected", v, "timeout")
        ELSE IF r.retry - 1 <= 0
        THEN /\ cl' = Upd(c, Done(r, ErrResp("Rocksdb")))
             /\ lastRow' = Row(c, r, u, v, v, "error", None, "timeout")
        ELSE /\ cl' = Upd(c, [r EXCEPT !.retry = @ - 1])
             /\ lastRow' = lastRow
  /\ hist' = HistAfter(c)
  /\ UNCHANGED <<backend, scen, kv, lock, writer, wtxn, nreq, sigcall, metadata, catalog, cache, seen, gone, issued, reply>>

\* The comparison under the lock, then put and commit, or rollback.
compare_and_commit(c) ==
  /\ cl[c].pc = "locked"
  /\ LET r == cl[c]
         u == r.cur
         key == EKey(r, u)
         old_value == r.data[u][1]
         new_value == r.data[u][2]
         sized == IF backend = "rocksdb" /\ r.existing = None
                  THEN MapPut(kv, size_key(r.index),
                              merge_add(MapGet(kv, size_key(r.index)),
                                        <<UsizeToBeBytes(Len(new_value))>>))
                  ELSE kv
     IN IF matches(r.existing, old_value)
        THEN /\ kv' = MapPut(sized, key, new_value)
             /\ cl' = Observe(Upd(c, NextRow([r EXCEPT !.written = @ \cup {u}])), kv')
             /\ lastRow' = Row(c, r, u, MapGet(kv, key), MapGet(kv', key), "accepted", None, "cas")
        ELSE /\ kv' = kv
             /\ IF r.existing # None
                THEN /\ cl' = Upd(c, NextRow([r EXCEPT !.rejected = MapPut(@, u, r.existing)]))
                     /\ lastRow' = Row(c, r, u, MapGet(kv, key), MapGet(kv, key), "rejected", r.existing, "cas")
                ELSE IF backend = "rocksdb"
                THEN /\ cl' = Upd(c, NextRow(r))
                     /\ lastRow' = Row(c, r, u, MapGet(kv, key), MapGet(kv, key), "dropped", None, "cas")
                ELSE /\ cl' = Upd(c, Done(r, PanicResp))
                     /\ lastRow' = Row(c, r, u, MapGet(kv, key), MapGet(kv, key), "panic", None, "cas")
  /\ lock' = MapDel(lock, EKey(cl[c], cl[c].cur))
  /\ hist' = HistAfter(c)
  /\ UNCHANGED <<backend, scen, writer, wtxn, nreq, sigcall, metadata, catalog, cache, seen, gone, issued, reply>>

\* ------------------------------------------- single-writer backend (heed.rs)

\* env.write_txn(): LMDB admits one write transaction at a time.
write_txn(c) ==
  /\ backend = "heed"
  /\ cl[c].pc = "begin"
  /\ writer = NoClient
  /\ writer' = c
  /\ wtxn' = kv
  /\ cl' = Upd(c, [cl[c] EXCEPT !.pc = IF cl[c].todo = {} THEN "commit" ELSE "intxn"])
  /\ UNCHANGED <<backend, scen, kv, lock, nreq, lastRow, hist, sigcall, metadata, catalog, cache, seen, gone, issued, reply>>

\* A faulty heed_row, to test the write transaction: every put is committed at once.
heed_row_autocommit(c, u) ==
  /\ cl[c].pc = "intxn"
  /\ u \in cl[c].todo
  /\ LET r == cl[c]
         key == EKey(r, u)
         old_value == r.data[u][1]
         new_value == r.data[u][2]
         existing_value == MapGet(wtxn, key)
         size == IF MapGet(wtxn, size_key(r.index)) = None THEN 0
                 ELSE BeValue(MapGet(wtxn, size_key(r.index)))
         sized == IF existing_value = None
                  THEN MapPut(wtxn, size_key(r.index), I64ToBeBytes(size + Len(new_value)))
                  ELSE wtxn
         left == r.todo \ {u}
         pc2 == IF left = {} THEN "commit" ELSE "intxn"
     IN IF matches(existing_value, old_value)
        THEN /\ wtxn' = MapPut(sized, key, new_value)
             /\ kv' = wtxn'
             /\ writer' = writer
             /\ cl' = Upd(c, [r EXCEPT !.pc = pc2, !.todo = left, !.written = @ \cup {u}])
             /\ lastRow' = Row(c, r, u, existing_value, MapGet(wtxn', key), "accepted", None, "cas")
        ELSE IF existing_value = None
        THEN /\ wtxn' = EmptyMap
             /\ kv' = kv
             /\ writer' = NoClient
             /\ cl' = Upd(c, Done([r EXCEPT !.written = {}, !.rejected = EmptyMap], PanicResp))
             /\ lastRow' = Row(c, r, u, existing_value, existing_value, "panic", None, "cas")
        ELSE /\ wtxn' = wtxn
             /\ kv' = kv
             /\ writer' = writer
             /\ cl' = Upd(c, [r EXCEPT !.pc = pc2, !.todo = left,
                                       !.rejected = MapPut(@, u, existing_value)])
             /\ lastRow' = Row(c, r, u, existing_value, existing_value, "rejected", existing_value, "cas")
  /\ hist' = HistAfter(c)
  /\ UNCHANGED <<backend, scen, lock, nreq, sigcall, metadata, catalog, cache, seen, gone, issued, reply>>

\* One row inside the write transaction. existing_value.unwrap() panics on a
\* row with an old value and nothing stored; the transaction is dropped, which
\* aborts it.
heed_row(c, u) ==
  /\ cl[c].pc = "intxn"
  /\ u \in cl[c].todo
  /\ LET r == cl[c]
         key == EKey(r, u)
         old_value == r.data[u][1]
         new_value == r.data[u][2]
         existing_value == MapGet(wtxn, key)
         size == IF MapGet(wtxn, size_key(r.index)) = None THEN 0
                 ELSE BeValue(MapGet(wtxn, size_key(r.index)))
         sized == IF existing_value = None
                  THEN MapPut(wtxn, size_key(r.index), I64ToBeBytes(size + Len(new_value)))
                  ELSE wtxn
         left == r.todo \ {u}
         pc2 == IF left = {} THEN "commit" ELSE "intxn"
     IN IF matches(existing_value, old_value)
        THEN /\ wtxn' = MapPut(sized, key, new_value)
             /\ writer' = writer
             /\ cl' = Upd(c, [r EXCEPT !.pc = pc2, !.todo = left, !.written = @ \cup {u}])
             /\ lastRow' = Row(c, r, u, existing_value, MapGet(wtxn', key), "accepted", None, "cas")
        ELSE IF existing_value = None
        THEN /\ wtxn' = EmptyMap
             /\ writer' = NoClient
             /\ cl' = Upd(c, Done([r EXCEPT !.written = {}, !.rejected = EmptyMap], PanicResp))
             /\ lastRow' = Row(c, r, u, existing_value, existing_value, "panic", None, "cas")
        ELSE /\ wtxn' = wtxn
             /\ writer' = writer
             /\ cl' = Upd(c, [r EXCEPT !.pc = pc2, !.todo = left,
                                       !.rejected = MapPut(@, u, existing_value)])
             /\ lastRow' = Row(c, r, u, existing_value, existing_value, "rejected", existing_value, "cas")
  /\ hist' = HistAfter(c)
  /\ UNCHANGED <<backend, scen, kv, lock, nreq, sigcall, metadata, catalog, cache, seen, gone, issued, reply>>

\* A get, a put or the commit of the write transaction returns an error (an
\* error of LMDB): `?` returns it, and the transaction is dropped, which aborts it.
heed_fails(c) ==
  /\ backend = "heed"
  /\ cl[c].pc \in {"intxn", "commit"}
  /\ cl[c].op = "upsert_entries"
  /\ writer' = NoClient
  /\ wtxn' = EmptyMap
  /\ cl' = Upd(c, Done([cl[c] EXCEPT !.written = {}, !.rejected = EmptyMap], ErrResp("Heed")))
  /\ hist' = HistAfter(c)
  /\ UNCHANGED <<backend, scen, kv, lock, nreq, lastRow, sigcall, metadata, catalog, cache, seen, gone, issued, reply>>

\* txn.commit(), then Ok(rejected).
heed_commit(c) ==
  /\ cl[c].pc = "commit"
  /\ kv' = wtxn
  /\ writer' = NoClient
  /\ wtxn' = EmptyMap
  /\ cl' = Observe(Upd(c, Done(cl[c], OkResp(cl[c].rejected))), kv')
  /\ hist' = HistAfter(c)
  /\ UNCHANGED <<backend, scen, lock, nreq, lastRow, sigcall, metadata, catalog, cache, seen, gone, issued, reply>>

\* -------------------------------------- conditional-put backend (dynamodb.rs)

\* A faulty conditional_write, to test the bound of the stream: it starts every
\* row's job at once.
conditional_write_unbounded(c, u) ==
  /\ cl[c].pc = "stream"
  /\ u \in cl[c].todo
  /\ scen = "par" => u = MinUid(cl[c].todo)
  /\ LET r == cl[c]
         key == EKey(r, u)
         stored == MapGet(kv, key)
     IN IF condition_holds(stored, r.data[u][1])
        THEN /\ kv' = MapPut(kv, key, r.data[u][2])
             /\ cl' = Observe(Upd(c, DynNext([r EXCEPT !.todo = @ \ {u}, !.written = @ \cup {u}])), kv')
             /\ lastRow' = Row(c, r, u, stored, MapGet(kv', key), "accepted", None, "cas")
        ELSE /\ kv' = kv
             /\ cl' = Upd(c, [r EXCEPT !.todo = @ \ {u}, !.jobs = MapPut(@, u, stored)])
             /\ lastRow' = lastRow
  /\ hist' = HistAfter(c)
  /\ UNCHANGED <<backend, scen, lock, writer, wtxn, nreq, sigcall, metadata, catalog, cache, seen, gone, issued, reply>>

\* upsert_entry, its conditional write: buffer_unordered starts the row's job
\* while fewer than the limit are in flight; the provider applies PutItem or
\* UpdateItem atomically. A failed condition leaves the job in flight, the
\* value it failed against kept for the row's record. In "par" the map's
\* iterator yields the rows in the order of their uids.
conditional_write(c, u) ==
  /\ cl[c].pc = "stream"
  /\ u \in cl[c].todo
  /\ scen = "par" => u = MinUid(cl[c].todo)
  /\ Cardinality(DOMAIN cl[c].jobs) < DYNAMODB_NUMBER_OF_PARALLEL_UPSERT_REQUEST
  /\ LET r == cl[c]
         key == EKey(r, u)
         stored == MapGet(kv, key)
     IN IF condition_holds(stored, r.data[u][1])
        THEN /\ kv' = MapPut(kv, key, r.data[u][2])
             /\ cl' = Observe(Upd(c, DynNext([r EXCEPT !.todo = @ \ {u}, !.written = @ \cup {u}])), kv')
             /\ lastRow' = Row(c, r, u, stored, MapGet(kv', key), "accepted", None, "cas")
        ELSE /\ kv' = kv
             /\ cl' = Upd(c, [r EXCEPT !.todo = @ \ {u}, !.jobs = MapPut(@, u, stored)])
             /\ lastRow' = lastRow
  /\ hist' = HistAfter(c)
  /\ UNCHANGED <<backend, scen, lock, writer, wtxn, nreq, sigcall, metadata, catalog, cache, seen, gone, issued, reply>>

\* A faulty follow-up read, to test what a rejection reports: it reports the
\* value the condition failed against.
fetch_value_stale(c, u) ==
  /\ cl[c].pc = "stream"
  /\ u \in DOMAIN cl[c].jobs
  /\ LET r == cl[c]
         v == r.jobs[u]
     IN IF v = None
        THEN /\ cl' = Upd(c, Done(r, ErrResp("DynamoDb")))
             /\ lastRow' = Row(c, r, u, r.jobs[u], r.jobs[u], "error", None, "cas")
        ELSE /\ cl' = Upd(c, DynNext([r EXCEPT !.jobs = MapDel(@, u), !.rejected = MapPut(@, u, v)]))
             /\ lastRow' = Row(c, r, u, r.jobs[u], r.jobs[u], "rejected", v, "cas")
  /\ hist' = HistAfter(c)
  /\ UNCHANGED <<backend, scen, kv, lock, writer, wtxn, nreq, sigcall, metadata, catalog, cache, seen, gone, issued, reply>>

\* upsert_entry after ConditionalCheckFailedException: fetch_value reads the
\* item with GetItem and fails when there is none. In "par" a behaviour follows
\* the first MaxParReads follow-up reads of a request that fills the stream,
\* and every follow-up read of a smaller one.
fetch_value(c, u) ==
  /\ cl[c].pc = "stream"
  /\ u \in DOMAIN cl[c].jobs
  /\ scen = "par" /\ Cardinality(DOMAIN cl[c].data) > DYNAMODB_NUMBER_OF_PARALLEL_UPSERT_REQUEST =>
       Cardinality(DOMAIN cl[c].rejected) < MaxParReads
  /\ LET r == cl[c]
         v == MapGet(kv, EKey(r, u))
     IN IF v = None
        THEN /\ cl' = Upd(c, Done(r, ErrResp("DynamoDb")))
             /\ lastRow' = Row(c, r, u, r.jobs[u], r.jobs[u], "error", None, "cas")
        ELSE /\ cl' = Upd(c, DynNext([r EXCEPT !.jobs = MapDel(@, u), !.rejected = MapPut(@, u, v)]))
             /\ lastRow' = Row(c, r, u, r.jobs[u], r.jobs[u], "rejected", v, "cas")
  /\ hist' = HistAfter(c)
  /\ UNCHANGED <<backend, scen, kv, lock, writer, wtxn, nreq, sigcall, metadata, catalog, cache, seen, gone, issued, reply>>

\* ------------------------------------------- failures (errors.rs, auth0.rs)

\* What a request meets stage by stage; a request that meets no failure:
\* the bearer header, the OIDC configuration, the key set, the token's kid, its
\* key, its validation, its subject; the projects of the subject; the path, the
\* catalog, the signed body, the payload, the storage backend.
GoodAttempt ==
  [route |-> "data", bearer |-> "ok", auth0 |-> "ok", jwks |-> "cached", kid |-> "some",
   jwk |-> "found", validate |-> "ok", sub |-> "string", provider |-> "ok",
   project |-> "known", path |-> "ok", lookup |-> "found", body |-> "ok",
   payload |-> "ok", storage |-> "ok"]

Deviations ==
  {<<"route", "catalog">>, <<"bearer", "missing">>, <<"auth0", "missing">>,
   <<"jwks", "fetch fails">>, <<"jwks", "not a key set">>, <<"jwks", "fetched">>,
   <<"kid", "none">>, <<"kid", "invalid">>, <<"jwk", "not found">>,
   <<"validate", "expired">>, <<"validate", "expired, wrong issuer">>,
   <<"validate", "wrong issuer">>, <<"validate", "bad signature">>,
   <<"sub", "missing">>, <<"sub", "not a string">>, <<"provider", "fails">>,
   <<"project", "unknown">>, <<"path", "bad">>, <<"lookup", "fails">>,
   <<"lookup", "unknown">>, <<"body", "no signature">>, <<"body", "no timestamp">>,
   <<"body", "mismatch">>, <<"body", "expired">>, <<"payload", "malformed">>,
   <<"storage", "fails">>}

Vary(a, d) == [a EXCEPT ![d[1]] = d[2]]

\* The failures a request meets together with another one.
SecondDeviations ==
  {<<"bearer", "missing">>, <<"validate", "expired">>, <<"body", "mismatch">>,
   <<"storage", "fails">>}

\* The requests of both routes: at most two stages differ from the good request's.
ErrAttempts ==
  {Vary(Vary(Vary(GoodAttempt, d1), d2), d3) :
     d1 \in {<<"route", "catalog">>, <<"route", "data">>}, d2 \in Deviations,
     d3 \in SecondDeviations}

Failed(err, why) == [err |-> err, why |-> why]
Passed == Failed("ok", "")

\* auth0.rs validate_token.
validate_token(a) ==
  IF a.jwks = "fetch fails" THEN Failed("CannotFetchJwks", "jwks")
  ELSE IF a.jwks = "not a key set" THEN Failed("CannotFetchJwksResponse", "jwks")
  ELSE IF a.kid = "none" THEN Failed("JwksNoKid", "kid")
  ELSE IF a.kid = "invalid" THEN Failed("JwksValidationError", "kid")
  ELSE IF a.jwk = "not found" THEN Failed("TokenKidNotFoundInJwksKeysSet", "jwk")
  ELSE IF a.validate \in {"expired", "expired, wrong issuer"}
    THEN Failed("TokenExpired", "token expired")
  ELSE IF a.validate # "ok" THEN Failed("JwksValidationError", "validate")
  ELSE IF a.sub = "missing" THEN Failed("MissingSubInJwtToken", "sub")
  ELSE IF a.sub = "not a string" THEN Failed("InvalidSubInJwtToken", "sub")
  ELSE Passed

\* auth0.rs FromRequest for Auth.
Auth_from_request(a) ==
  IF a.bearer = "missing" THEN Failed("BearerError", "bearer")
  ELSE IF a.auth0 = "missing" THEN Failed("InvalidConfiguration", "auth0")
  ELSE validate_token(a)

\* core.rs FromRequest for Index.
Index_from_request(a) ==
  IF a.path = "bad" THEN Failed("WrongIndexPublicId", "path")
  ELSE IF a.lookup = "fails" THEN Failed("Sqlx", "catalog")
  ELSE IF a.lookup = "unknown" THEN Failed("BadRequest", "unknown public_id")
  ELSE Passed

\* core.rs check_body_signature, by what is wrong with the body.
body_signature(a) ==
  IF a.body = "no signature" THEN Failed("BadRequest", "framing")
  ELSE IF a.body = "no timestamp" THEN Failed("BadRequest", "framing")
  ELSE IF a.body = "mismatch" THEN Failed("InvalidSignature", "signature")
  ELSE IF a.body = "expired" THEN Failed("BadRequest", "expired")
  ELSE Passed

\* main.rs get_indexes: the subject, its projects, the catalog.
catalog_handler(a) ==
  LET auth == Auth_from_request(a)
  IN IF auth.err # "ok" THEN auth
     ELSE IF a.provider = "fails" THEN Failed("Reqwest", "provider")
     ELSE IF a.project = "unknown" THEN Failed("UnknownProject", "unknown project")
     ELSE IF a.lookup = "fails" THEN Failed("Sqlx", "catalog")
     ELSE Passed

\* main.rs upsert_entries: the index, the body, the payload, the backend.
data_handler(b, a) ==
  LET index == Index_from_request(a)
      bytes == body_signature(a)
  IN IF index.err # "ok" THEN index
     ELSE IF bytes.err # "ok" THEN bytes
     ELSE IF a.payload = "malformed" THEN Failed("Findex", "payload")
     ELSE IF a.storage = "fails"
       THEN Failed(IF b = "heed" THEN "Heed" ELSE "Rocksdb", "storage")
     ELSE Passed

\* errors.rs error_response: the status of the response.
error_response(res) == IF res.err = "ok" THEN 200 ELSE status_code(res.err)

\* A request is answered.
respond(a) ==
  /\ scen = "err"
  /\ Len(hist) < MaxErrReqs
  /\ LET res == IF a.route = "catalog" THEN catalog_handler(a) ELSE data_handler(backend, a)
     IN hist' = Append(hist, [req |-> a, err |-> res.err, why |-> res.why,
                              status |-> error_response(res)])
  /\ UNCHANGED <<backend, scen, kv, lock, writer, wtxn, cl, nreq, lastRow, sigcall,
                 metadata, catalog, cache, seen, gone, issued, reply>>

\* ---------------------------------------------------------- specifications

\* The catalog after post_indexes has created the two indexes, and the cache
\* after a request on each of them.
Catalog0 == [rows |-> {Index1, Index2}, seq |-> 2]
Cache0 == [p \in PublicIds |-> IF p = P1 THEN Index1 ELSE Index2]

InitIn(s) ==
  /\ backend \in Backends
  /\ scen = s
  /\ kv = EmptyMap
  /\ lock = EmptyMap
  /\ writer = NoClient
  /\ wtxn = EmptyMap
  /\ cl = [c \in Clients |-> IdleClient]
  /\ nreq = 0
  /\ lastRow = NoRow
  /\ hist = <<>>
  /\ sigcall = NoCall
  /\ metadata = "sqlite"
  /\ catalog = Catalog0
  /\ cache = Cache0
  /\ seen = [sub \in Subjects |-> {}]
  /\ gone = {}
  /\ issued = {Index1, Index2}
  /\ reply = NoReply

Uids == {U1, U2}

\* Two clients whose requests overlap.
Init == InitIn("conc")
Next ==
  \E c \in Clients :
    \/ \E k \in UpsertCalls : upsert_entries(c, k)
    \/ \E k \in FetchCalls : fetch_entries(c, k)
    \/ \E u \in Uids : get_for_update(c, u)
    \/ \E u \in Uids : lock_timeout(c, u)
    \/ timeout_read(c)
    \/ compare_and_commit(c)
    \/ write_txn(c)
    \/ \E u \in Uids : heed_row(c, u)
    \/ heed_commit(c)
    \/ \E u \in Uids : conditional_write(c, u)
    \/ \E u \in Uids : fetch_value(c, u)
    \/ heed_fails(c)
Spec == Init /\ [][Next]_vars

\* Two clients racing on one uid with single-row upserts.
InitCas == InitIn("cas")
NextCas ==
  \E c \in Clients :
    \/ \E k \in UpsertCalls : upsert_entries(c, k)
    \/ \E u \in Uids : get_for_update(c, u)
    \/ \E u \in Uids : lock_timeout(c, u)
    \/ timeout_read(c)
    \/ compare_and_commit(c)
    \/ write_txn(c)
    \/ \E u \in Uids : heed_row(c, u)
    \/ heed_commit(c)
    \/ \E u \in Uids : conditional_write(c, u)
    \/ \E u \in Uids : fetch_value(c, u)
SpecCas == InitCas /\ [][NextCas]_vars

\* One client: no two requests overlap, so no lock is ever waited for.
NextSeq ==
  \E c \in Clients :
    \/ \E k \in UpsertCalls : upsert_entries(c, k)
    \/ \E k \in FetchCalls : fetch_entries(c, k)
    \/ \E u \in Uids : get_for_update(c, u)
    \/ compare_and_commit(c)
    \/ write_txn(c)
    \/ \E u \in Uids : heed_row(c, u)
    \/ heed_commit(c)
    \/ \E u \in Uids : conditional_write(c, u)
    \/ \E u \in Uids : fetch_value(c, u)

\* One client sending one request after the other.
InitSeq == InitIn("seq")
SpecSeq == InitSeq /\ [][NextSeq]_vars

\* One client sending bodies that are replayed, changed or cut short. The
\* handlers check the body before they call the backend, whichever it is: the
\* transactional backends stand for all four here.
InitSig == InitIn("sig") /\ backend \in {"rocksdb", "inline"}
NextSig ==
  \E c \in Clients :
    \/ \E k \in UpsertCalls : upsert_entries(c, k)
    \/ \E k \in FetchCalls : fetch_entries(c, k)
    \/ \E k \in InsertCalls : insert_chains(c, k)
    \/ \E k \in FetchChainsCalls : fetch_chains(c, k)
    \/ \E u \in Uids : get_for_update(c, u)
    \/ compare_and_commit(c)
SpecSig == InitSig /\ [][NextSig]_vars

\* The catalog endpoints and the data-plane endpoints as two subjects call
\* them, one data-plane request at a time, from the moment subject A has
\* created its first index and read the response; the cache is cold. main.rs is its own catalog and its own
\* backend; the catalogs of sqlite.rs and dynamodb.rs run here over rocksdb.rs.
\* No lock is waited for longer than the timeout.
Created1 ==
  IF metadata = "dynamodb"
  THEN [Index1 EXCEPT !.id = 0, !.authz_id = "", !.project_uuid = "", !.created_at = UtcNow(1)]
  ELSE Index1
Stored1 == IF metadata = "dynamodb" THEN index_to_item(Created1) ELSE Created1
InitCat ==
  /\ metadata \in {"inline", "sqlite", "dynamodb"}
  /\ backend = IF metadata = "inline" THEN "inline" ELSE "rocksdb"
  /\ scen = "cat"
  /\ kv = EmptyMap
  /\ lock = EmptyMap
  /\ writer = NoClient
  /\ wtxn = EmptyMap
  /\ cl = [c \in Clients |-> IdleClient]
  /\ nreq = 0
  /\ lastRow = NoRow
  /\ hist = <<>>
  /\ sigcall = NoCall
  /\ catalog = [rows |-> {Stored1}, seq |-> 1]
  /\ cache = EmptyMap
  /\ seen = [sub \in Subjects |->
               IF sub = "subA"
               THEN {Serialize(Created1, IF metadata = "dynamodb" THEN Some(<<0>>) ELSE None)}
               ELSE {}]
  /\ gone = {}
  /\ issued = {Created1}
  /\ reply = NoReply
NextCat ==
  \/ \E sub \in Subjects, project_uuid \in Projects, public_id \in PublicIds :
       post_indexes(sub, project_uuid, public_id)
  \/ \E sub \in Subjects, project_uuid \in Projects : get_indexes(sub, project_uuid)
  \/ \E sub \in Subjects, public_id \in PublicIds : get_index(sub, public_id)
  \/ \E sub \in Subjects, public_id \in PublicIds : delete_index(sub, public_id)
  \/ \E c \in Clients :
       \/ \E k \in UpsertCalls : upsert_entries(c, k)
       \/ \E k \in FetchCalls : fetch_entries(c, k)
       \/ \E k \in InsertCalls : insert_chains(c, k)
       \/ \E k \in FetchChainsCalls : fetch_chains(c, k)
       \/ \E u \in Uids : get_for_update(c, u)
       \/ compare_and_commit(c)
SpecCat == InitCat /\ [][NextCat]_vars

\* One client sending one request after the other to both tables of two indexes.
InitTab == InitIn("tab")
NextTab ==
  \E c \in Clients :
    \/ \E k \in UpsertCalls : upsert_entries(c, k)
    \/ \E k \in FetchCalls : fetch_entries(c, k)
    \/ \E k \in InsertCalls : insert_chains(c, k)
    \/ \E k \in FetchChainsCalls : fetch_chains(c, k)
    \/ \E u \in Uids : get_for_update(c, u)
    \/ compare_and_commit(c)
    \/ write_txn(c)
    \/ \E u \in Uids : heed_row(c, u)
    \/ heed_commit(c)
    \/ \E u \in Uids : conditional_write(c, u)
    \/ \E u \in Uids : fetch_value(c, u)
SpecTab == InitTab /\ [][NextTab]_vars

\* One server answering requests that fail; the DynamoDb kind of dynamodb.rs
\* has no arm in errors.rs, so the backends are those whose kinds have one.
InitErr == InitIn("err") /\ backend \in {"rocksdb", "heed", "inline"}
NextErr == \E a \in ErrAttempts : respond(a)
SpecErr == InitErr /\ [][NextErr]_vars

\* Two clients of the single-writer backend, their requests overlapping.
InitHeed == InitIn("heed") /\ backend = "heed"
NextHeed ==
  \E c \in Clients :
    \/ \E k \in UpsertCalls : upsert_entries(c, k)
    \/ \E k \in FetchCalls : fetch_entries(c, k)
    \/ \E k \in InsertCalls : insert_chains(c, k)
    \/ \E k \in FetchChainsCalls : fetch_chains(c, k)
    \/ write_txn(c)
    \/ \E u \in Uids : heed_row(c, u)
    \/ heed_commit(c)
SpecHeed == InitHeed /\ [][NextHeed]_vars

\* Two clients of rocksdb.rs, their insert_chains, upserts and reads overlapping.
InitChn == InitIn("chn") /\ backend = "rocksdb"
NextChn ==
  \E c \in Clients :
    \/ \E k \in UpsertCalls : upsert_entries(c, k)
    \/ \E k \in InsertCalls : insert_chains(c, k)
    \/ \E k \in FetchChainsCalls : fetch_chains(c, k)
    \/ \E u \in Uids : put_chain(c, u)
    \/ \E u \in Uids : put_fails(c, u)
    \/ merge_size(c)
    \/ \E u \in Uids : get_for_update(c, u)
    \/ \E u \in Uids : lock_timeout(c, u)
    \/ timeout_read(c)
    \/ compare_and_commit(c)
SpecChn == InitChn /\ [][NextChn]_vars

\* One client of dynamodb.rs whose requests have more rows than the stream
\* runs in parallel.
InitPar == InitIn("par") /\ backend = "dynamodb"
NextPar ==
  \E c \in Clients :
    \/ \E k \in UpsertCalls : upsert_entries(c, k)
    \/ \E u \in ParUids : conditional_write(c, u)
    \/ \E u \in ParUids : fetch_value(c, u)
SpecPar == InitPar /\ [][NextPar]_vars

\* Two clients that upsert one uid of one index in rounds: each sends one row
\* per round, and a round begins when every request of the one before has been
\* answered. A client sends as old value the value it knows: nothing before
\* its first answer, the value it wrote when its row was accepted, the value
\* the rejected map returned when it was rejected; as new value another one.
Belief(c) ==
  IF cl[c].op = "" THEN None
  ELSE IF U1 \in cl[c].written THEN cl[c].data[U1][2]
  ELSE IF cl[c].resp.kind = "ok" /\ U1 \in DOMAIN cl[c].resp.body THEN cl[c].resp.body[U1]
  ELSE cl[c].data[U1][1]
NewOf(c, old) ==
  IF old = None THEN (IF c = "c1" THEN VB ELSE VC)
  ELSE IF old = VB THEN VC ELSE VB
RtyCall(c) ==
  ValidRequest(Index1, "upsert_entries",
               UpsertDataToBytes([u \in {U1} |-> <<Belief(c), NewOf(c, Belief(c))>>]))
Sent(c) ==
  Cardinality({i \in 1..Len(hist) : hist[i].c = c}) + (IF cl[c].pc = "idle" THEN 0 ELSE 1)
RoundOpen(c) ==
  \A o \in Clients \ {c} : Sent(c) < Sent(o) \/ (Sent(c) = Sent(o) /\ cl[o].pc = "idle")

\* The steps the server takes for the request of client c.
Serve(c) ==
  \/ \E u \in Uids : get_for_update(c, u)
  \/ \E u \in Uids : lock_timeout(c, u)
  \/ timeout_read(c)
  \/ compare_and_commit(c)
  \/ write_txn(c)
  \/ \E u \in Uids : heed_row(c, u)
  \/ heed_commit(c)
  \/ \E u \in Uids : conditional_write(c, u)
  \/ \E u \in Uids : fetch_value(c, u)

\* The server's worker runs every request it has accepted: a step of a request
\* that stays possible is taken. Nothing obliges a client to send.
InitRty == InitIn("rty") /\ backend \in {"rocksdb", "heed", "dynamodb"}
NextRty ==
  \E c \in Clients :
    \/ RoundOpen(c) /\ upsert_entries(c, RtyCall(c))
    \/ Serve(c)
SpecRty == InitRty /\ [][NextRty]_vars /\ \A c \in Clients : WF_vars(Serve(c))

\* The overlapping upserts of the transactional backend, the retry loop of every
\* handler running on: it neither blocks nor awaits between its reads
\* (rocksdb.rs:86-95).
InitFair == InitIn("cas") /\ backend \in {"rocksdb", "inline"}
NextFair ==
  \E c \in Clients :
    \/ \E k \in UpsertCalls : upsert_entries(c, k)
    \/ \E u \in Uids : get_for_update(c, u)
    \/ \E u \in Uids : lock_timeout(c, u)
    \/ timeout_read(c)
    \/ compare_and_commit(c)
SpecFair == InitFair /\ [][NextFair]_vars /\ \A c \in Clients : WF_vars(timeout_read(c))

\* -------------------------------------------------- properties: the upsert

\* The condition under which a row (uid, old, new) is to be written over the
\* stored value s: nothing expected and nothing stored, or the expected value stored.
CasCondition(old, s) == (old = None /\ s = None) \/ (old # None /\ s # None /\ old = s)

\* A decided row is written exactly when the condition holds of what was
\* stored, and leaves new stored when written and s otherwise. In heed.rs
\* "stored" is the row as the open write transaction sees it.
RowIsCas(row) ==
  /\ (row.out = "accepted") <=> CasCondition(row.old, row.pre)
  /\ row.post = IF CasCondition(row.old, row.pre) THEN row.new ELSE row.pre

\* C1, as stated: every decided upsert row, in every backend, is written if and
\* only if (old is None and nothing is stored) or (old is the stored value), and
\* otherwise leaves the stored value as it was.
C1_EveryRowIsCas == lastRow.out # "" => RowIsCas(lastRow)

\* C1, amended: the above holds of every row whose lock acquisition did not
\* time out; a row whose lock acquisition timed out is never written and leaves
\* the stored value as it was, whether or not the condition holds.
C1_RowIsCasUnlessLockTimeout ==
  lastRow.out # "" =>
    IF lastRow.via = "cas" THEN RowIsCas(lastRow)
    ELSE lastRow.out # "accepted" /\ lastRow.post = lastRow.pre

\* C1, its case: an overwrite accepted under the lock while another client runs.
C1_Witness ==
  /\ lastRow.out = "accepted" /\ lastRow.old # None /\ lastRow.via = "cas"
  /\ lastRow.post = lastRow.new /\ lastRow.pre = lastRow.old
  /\ \E c \in Clients : c # lastRow.c /\ cl[c].op = "upsert_entries"

\* A finished upsert request that got a success response.
Answered(c) == cl[c].pc = "idle" /\ cl[c].op = "upsert_entries" /\ cl[c].resp.kind = "ok"

\* C2: the map upsert_entries returns holds exactly the uids of the request
\* whose row was not written, each with the value stored for it; a written row
\* is never in it. (One client, so "stored" is the value stored when the
\* response is given.)
C2_RejectedMapIsTheUnwrittenRows ==
  Answered("c1") =>
    /\ DOMAIN cl["c1"].resp.body = DOMAIN cl["c1"].data \ cl["c1"].written
    /\ \A u \in DOMAIN cl["c1"].resp.body : cl["c1"].resp.body[u] = MapGet(kv, EKey(cl["c1"], u))

\* C3: a row with old = Some(v) decided while nothing is stored is not written,
\* the request completes, and the uid is in the rejected map.
C3_AbsentRowIsRejected ==
  (lastRow.out # "" /\ lastRow.via = "cas" /\ lastRow.old # None /\ lastRow.pre = None) =>
    /\ lastRow.out = "rejected"
    /\ lastRow.post = None
    /\ cl[lastRow.c].pc = "idle" => (cl[lastRow.c].resp.kind = "ok"
                                      /\ lastRow.uid \in DOMAIN cl[lastRow.c].resp.body)

\* Two clients, one request each, both inserting U1 with different values, both
\* done, in a store that works: no request met an error of LMDB itself.
RaceOver ==
  /\ nreq = 2
  /\ \A c \in Clients :
       /\ cl[c].pc = "idle" /\ cl[c].op = "upsert_entries"
       /\ cl[c].resp # ErrResp("Heed")
       /\ U1 \in DOMAIN cl[c].data /\ cl[c].data[U1][1] = None
  /\ cl["c1"].data[U1][2] # cl["c2"].data[U1][2]

\* w's insert of U1 was accepted: its rejected map is empty and a fetch of U1
\* now returns its value.
Won(w) ==
  /\ cl[w].resp = OkResp(EmptyMap)
  /\ fetch(kv, Index1, "Entries", {U1}) = [u \in {U1} |-> cl[w].data[U1][2]]
ToldOfWinner(l, w) == cl[l].resp = OkResp([u \in {U1} |-> cl[w].data[U1][2]])

C5_RowsLinearizable == lastRow.out \in {"accepted", "rejected"} => lastRow.lin

\* C5, amended: the rows whose lock acquisition did not time out are
\* linearizable; a row whose lock acquisition timed out is never written, and
\* may be rejected although the expected value was stored all along.
C5_RowsLinearizableUnlessLockTimeout ==
  lastRow.out # "" =>
    IF lastRow.via = "cas" THEN lastRow.lin ELSE lastRow.out # "accepted"

\* C5, its case: an overwrite rejected under the lock after the other
\* client's commit on the same uid.
C5_Witness ==
  /\ lastRow.out = "rejected" /\ lastRow.via = "cas" /\ lastRow.lin
  /\ lastRow.old # None /\ lastRow.pre # None
  /\ \E c \in Clients : c # lastRow.c /\ lastRow.uid \in cl[c].written

\* The value of U1 after the first i requests of the history: the new value of
\* the row accepted last.
RECURSIVE LastAccepted(_)
LastAccepted(i) ==
  IF i = 0 THEN None
  ELSE IF hist[i].op = "upsert_entries" /\ U1 \in hist[i].written THEN hist[i].data[U1][2]
  ELSE LastAccepted(i - 1)
AsFetched(v) == IF v = None THEN EmptyMap ELSE [u \in {U1} |-> v]
RowOn(old, new) == [u \in {U1} |-> <<old, new>>]

Called == sigcall.op # ""
FramingLength == CALLBACK_SIGNATURE_LENGTH + TIMESTAMP_LENGTH
\* The body is the one a holder of the endpoint's key of this index signed, whole.
Genuine == /\ sigcall.sidx = sigcall.idx /\ sigcall.sop = sigcall.op
           /\ sigcall.tamper = 0 /\ sigcall.len = sigcall.full
Refused(err, why) == sigcall.err = err /\ sigcall.why = why /\ cl["c1"].resp = ErrResp(err)

\* C7, as stated: a correctly signed body with expiration_ts <= now is refused.
C7_ExpiringNowIsRefused ==
  (Called /\ Genuine /\ sigcall.ts <= sigcall.now) => Refused("BadRequest", "expired")

\* C7, amended: a correctly signed body with expiration_ts < now is refused
\* with the expired BadRequest, and the step that refuses it leaves the store,
\* the locks and the write transaction as they were and starts no backend
\* operation; a body with expiration_ts = now is not expired.
C7_ExpiredIsRefused ==
  [][(nreq' = nreq + 1 /\ sigcall'.op # "" /\ sigcall'.sidx = sigcall'.idx
        /\ sigcall'.sop = sigcall'.op /\ sigcall'.tamper = 0 /\ sigcall'.len = sigcall'.full) =>
       IF sigcall'.ts < sigcall'.now
       THEN /\ sigcall'.err = "BadRequest" /\ sigcall'.why = "expired"
            /\ cl'["c1"].resp = ErrResp("BadRequest") /\ cl'["c1"].pc = "idle"
            /\ kv' = kv /\ lock' = lock /\ wtxn' = wtxn /\ lastRow' = lastRow
       ELSE sigcall'.why # "expired"]_vars

\* C7, its case: an expired body refused while the store holds a row.
C7_Witness ==
  /\ Called /\ Genuine /\ sigcall.ts < sigcall.now /\ Refused("BadRequest", "expired")
  /\ kv # EmptyMap

\* C8: a body passes the MAC check only if it is genuine; a body signed for
\* another index or for another operation of the index, a body with a byte of
\* the MAC, the timestamp or the payload changed, and a body that lost bytes of
\* its payload are refused with InvalidSignature.
C8_SignatureBinds ==
  Called =>
    /\ (sigcall.len >= FramingLength /\ ~Genuine) => Refused("InvalidSignature", "")
    /\ (sigcall.err \in {"ok", "Findex"} \/ sigcall.why = "expired") => Genuine

\* C8, its case: a body signed for fetch_entries of the index, sent to its upsert_entries.
C8_Witness ==
  /\ Called /\ sigcall.op = "upsert_entries" /\ sigcall.sop = "fetch_entries"
  /\ sigcall.sidx = sigcall.idx /\ sigcall.tamper = 0 /\ sigcall.len = sigcall.full
  /\ Refused("InvalidSignature", "")

\* C9: the MAC is compared before the expiration is looked at. A body of at
\* least 40 bytes whose MAC does not match gets 403 InvalidSignature also when
\* its expiration is in the past, and the expired 400 is given only to bodies
\* whose MAC matches.
C9_MacBeforeExpiry ==
  Called =>
    /\ (sigcall.len >= FramingLength /\ ~Genuine /\ sigcall.ts < sigcall.now) =>
         /\ sigcall.err = "InvalidSignature" /\ cl["c1"].resp.status = 403
    /\ sigcall.why = "expired" =>
         /\ Genuine /\ sigcall.kmacs = 1 /\ cl["c1"].resp.status = 400

\* C9, its case: a payload byte changed in a body that has expired.
C9_Witness ==
  /\ Called /\ sigcall.tamper > FramingLength /\ sigcall.ts < sigcall.now
  /\ sigcall.err = "InvalidSignature" /\ cl["c1"].resp.status = 403

\* C10: a body of 0 to 39 bytes is refused with BadRequest (400) and no MAC is
\* computed; a body of 40 bytes goes to the MAC check as an empty payload, so
\* that the 40 bytes signed over the empty payload pass it.
C10_ShortBodyIsBadRequest ==
  Called =>
    /\ sigcall.len < FramingLength =>
         /\ sigcall.err = "BadRequest" /\ sigcall.why \in {"no signature", "no timestamp"}
         /\ sigcall.kmacs = 0 /\ cl["c1"].resp.status = 400
    /\ sigcall.len = FramingLength =>
         /\ sigcall.kmacs = 1 /\ sigcall.why \notin {"no signature", "no timestamp"}
         /\ Genuine => sigcall.err # "InvalidSignature"

\* C10, its case: a body of 39 bytes.
C10_Witness ==
  /\ Called /\ sigcall.len = FramingLength - 1 /\ sigcall.full > FramingLength
  /\ Refused("BadRequest", "no timestamp") /\ sigcall.kmacs = 0

\* ------------------------------------------------- properties: the catalog

\* C11: once the owner's delete_index(p) has completed, a data-plane request
\* on p (fetch_entries, fetch_chains, upsert_entries, insert_chains) is
\* answered with the unknown-index BadRequest, whether or not the cache held p.
C11_DeletedIndexIsUnknown ==
  (reply.op \in DataOps /\ reply.gone) => reply.err = "BadRequest"

\* C12: a deleted index keeps its catalog row, with deleted_at set, and no
\* response of get_index or get_indexes shows its public id.
C12_SoftDeleteHidesTheIndex ==
  \A p \in gone :
    /\ \E r \in catalog.rows : r.public_id = p /\ r.deleted_at # None
    /\ reply.op \in {"get_index", "get_indexes"} =>
         \A i \in DOMAIN reply.body : reply.body[i].public_id # p

\* The status an endpoint answers with when no index has the public id.
UnknownStatus(op) == IF op = "delete_index" THEN 200 ELSE status_code("BadRequest")

\* C13: where the catalog records owners, a request of a subject on the live
\* index of another subject is answered with the status of an unknown public
\* id, shows no index and leaves the index live.
C13_TenantIsolation ==
  (/\ metadata # "dynamodb"
   /\ reply.op \in DataOps \cup {"get_index", "delete_index"}
   /\ reply.foreign) =>
     /\ reply.status = UnknownStatus(reply.op)
     /\ reply.body = <<>>
     /\ Foreign(reply.sub, reply.public_id)

KeyFields == {"fetch_entries_key", "fetch_chains_key", "upsert_entries_key", "insert_chains_key"}

\* C14: only the response of the POST that created an index holds its four
\* operation keys.
C14_KeysOnlyInCreationResponse ==
  reply.op # "post_indexes" =>
    \A i \in DOMAIN reply.body : DOMAIN reply.body[i] \cap KeyFields = {}

\* C19: no two indexes ever created have the same public id, and no two rows
\* of the catalog have.
C19_PublicIdIsUnique ==
  /\ \A i, j \in issued : i.public_id = j.public_id => i = j
  /\ \A r, q \in catalog.rows : r.public_id = q.public_id => r = q

\* --------------------------------------------- properties: the size counter

\* The bytes a finished or running request has inserted: the values of its
\* written rows that had no old value (every row of insert_chains is one).
Inserted(e) ==
  SumLen([u \in {w \in e.written : e.data[w][1] = None} |-> e.data[u][2]])

RECURSIVE Accounted(_, _)
\* The bytes the finished requests have inserted into the index.
Accounted(h, public_id) ==
  IF h = <<>> THEN 0
  ELSE (IF Head(h).index = public_id THEN Inserted(Head(h)) ELSE 0)
       + Accounted(Tail(h), public_id)

\* The rows a running upsert_entries of rocksdb.rs has committed so far; the
\* write transaction of heed.rs commits once, when the request ends.
Running(public_id) ==
  IF backend = "rocksdb" /\ cl["c1"].pc # "idle" /\ cl["c1"].index.public_id = public_id
  THEN Inserted(cl["c1"]) ELSE 0

Counter(store, index) == set_size(store, index)[1]

NoDecrease ==
  backend \in {"rocksdb", "heed"} => \A i \in Indexes : Counter(kv', i) >= Counter(kv, i)

\* C15: where the backend keeps a size counter (rocksdb.rs, heed.rs), the
\* counter of an index is the sum of len(value) over the values inserted into
\* it by insert_chains and by accepted upsert rows with old = None (0 before
\* any insert), and no step makes it smaller.
C15_SizeIsTheSumOfInserts ==
  /\ [](backend \in {"rocksdb", "heed"} =>
          \A i \in Indexes : Counter(kv, i) = Accounted(hist, i.public_id) + Running(i.public_id))
  /\ [][NoDecrease]_vars

\* Index1 has had chains inserted and an entry inserted, and an entry replaced
\* by a longer value, which the counter does not count.
C15_Witness ==
  /\ backend \in {"rocksdb", "heed"}
  /\ cl["c1"].pc = "idle"
  /\ \E a, b, c \in DOMAIN hist :
       /\ hist[a].op = "insert_chains" /\ hist[a].index = P1 /\ hist[a].resp.kind = "ok"
       /\ hist[b].op = "upsert_entries" /\ hist[b].index = P1 /\ Inserted(hist[b]) > 0
       /\ hist[c].op = "upsert_entries" /\ hist[c].index = P1 /\ hist[c].written # {}
       /\ Inserted(hist[c]) = 0
  /\ Counter(kv, Index1) > 0
  /\ Counter(kv, Index2) = 0

\* ------------------------------------------------- properties: the tables

Tables == {"Entries", "Chains"}
WriteOp(table) == IF table = "Entries" THEN "upsert_entries" ELSE "insert_chains"
TableOf(op) == IF op \in {"upsert_entries", "fetch_entries"} THEN "Entries" ELSE "Chains"

RECURSIVE LastCommitted(_, _, _, _)
\* The value the first n requests have committed last for (index, table, uid).
LastCommitted(n, public_id, table, u) ==
  IF n = 0 THEN None
  ELSE IF /\ hist[n].index = public_id /\ hist[n].op = WriteOp(table) /\ u \in hist[n].written
       THEN hist[n].data[u][2]
       ELSE LastCommitted(n - 1, public_id, table, u)

\* The rows of Uids that (index, table) holds after the first n requests.
Committed(n, public_id, table) ==
  [u \in {w \in Uids : LastCommitted(n, public_id, table, w) # None} |->
     LastCommitted(n, public_id, table, u)]

FetchIsPure ==
  \A n \in DOMAIN hist :
    hist[n].op \in {"fetch_entries", "fetch_chains"} =>
      hist[n].resp = OkResp(Committed(n - 1, hist[n].index, TableOf(hist[n].op)))

\* C16: a fetch of the uids U1 and U2 answers 200 with exactly the uids that
\* have a value in that table of that index, each with the value committed
\* last for (index, table, uid); a uid without a value is left out, without error.
C16_FetchIsPure == FetchIsPure

\* The same, for the three implementations of IndexesDatabase::fetch.
C16_FetchOfTheBackendsIsPure == backend # "inline" => FetchIsPure

\* A fetch_chains after an insert of a chain and of an entry on U1: U1 comes
\* with the chain's value, U2 is left out.
C16_BackendsCase ==
  /\ backend # "inline"
  /\ Len(hist) = 3 /\ hist[3].op = "fetch_chains" /\ hist[3].index = P1
  /\ hist[3].resp = OkResp([u \in {U1} |-> VA])
  /\ \E n \in 1..2 : hist[n].op = "upsert_entries" /\ hist[n].index = P1 /\ U1 \in hist[n].written

\* What the requests can see of one table of an index.
View(store, index, table) == fetch(store, index, table, Uids)

\* The request whose step this is (there is one client).
Stepping == cl'["c1"]

TablesAreDisjoint ==
  \A i \in Indexes :
    /\ Stepping.op = "insert_chains" => View(kv', i, "Entries") = View(kv, i, "Entries")
    /\ Stepping.op = "upsert_entries" => View(kv', i, "Chains") = View(kv, i, "Chains")

\* C17: no step of insert_chains changes what fetch_entries returns (and so
\* what an upsert is compared with), and no step of upsert_entries changes
\* what fetch_chains returns.
C17_TablesAreDisjoint == [][TablesAreDisjoint]_vars

\* The same, without the handlers of main.rs.
C17_BackendTablesAreDisjoint == [][backend # "inline" => TablesAreDisjoint]_vars

KeysAreInjective ==
  /\ \A i, j \in Indexes : \A t, s \in Tables : \A u, v \in Uids :
       Key(backend, i, t, u) = Key(backend, j, s, v) => (i = j /\ t = s /\ u = v)
  /\ backend \in {"rocksdb", "heed"} =>
       /\ \A i, j \in Indexes : size_key(i) = size_key(j) => i = j
       /\ \A i, j \in Indexes : \A t \in Tables : \A u \in Uids : size_key(i) # Key(backend, j, t, u)

\* A rejected map holds values committed to the entries of the request's index.
RejectsAgainstItsIndex ==
  \A n \in DOMAIN hist :
    (hist[n].op = "upsert_entries" /\ hist[n].resp.kind = "ok") =>
      \A u \in DOMAIN hist[n].resp.body :
        hist[n].resp.body[u] = LastCommitted(n - 1, hist[n].index, "Entries", u)

OtherIndexesUntouched ==
  \A i \in Indexes :
    i.public_id # Stepping.index.public_id =>
      /\ \A t \in Tables : View(kv', i, t) = View(kv, i, t)
      /\ set_size(kv', i) = set_size(kv, i)

\* C18: distinct (index, table, uid) triples, and the size counters, have
\* distinct physical keys; a request on one index leaves the rows and the
\* counter of every other index as they were, and is rejected only against
\* values of its own index.
C18_IndexIsThePrimaryKey ==
  /\ [](KeysAreInjective /\ RejectsAgainstItsIndex /\ FetchIsPure)
  /\ [][OtherIndexesUntouched]_vars

\* The same, without the handlers of main.rs.
C18_BackendIndexIsThePrimaryKey ==
  /\ [](backend # "inline" => (KeysAreInjective /\ RejectsAgainstItsIndex /\ FetchIsPure))
  /\ [][OtherIndexesUntouched]_vars

\* Index2 holds U1 in both tables, and a request on Index1 with the same uid
\* has been answered.
C18_BackendsCase ==
  /\ backend # "inline"
  /\ Len(hist) = 3 /\ hist[3].index = P1 /\ hist[3].resp.kind = "ok"
  /\ View(kv, Index2, "Entries") = [u \in {U1} |-> VC]
  /\ View(kv, Index2, "Chains") = [u \in {U1} |-> VE]

\* ------------------------------------------- properties: partial success

\* A finished upsert_entries request in which a row was not accepted and the
\* store raised no error: neither the lock timeout read out of rocksdb.rs nor
\* an error of LMDB.
SomeRowRejected(c) ==
  /\ cl[c].pc = "idle" /\ cl[c].op = "upsert_entries"
  /\ cl[c].written # DOMAIN cl[c].data
  /\ cl[c].resp # ErrResp("Rocksdb")
  /\ cl[c].resp # ErrResp("Heed")

PartialSuccess(c) ==
  /\ cl[c].resp = OkResp(cl[c].rejected)
  /\ DOMAIN cl[c].rejected \cap cl[c].written = {}
  /\ \A u \in cl[c].written : MapGet(kv, EKey(cl[c], u)) # None

\* C20: a request with a rejected row and no error of the store is answered
\* 200 with the rejected map as its body, and its accepted rows are committed.
C20_RejectionIsNotAnError ==
  \A c \in Clients : SomeRowRejected(c) => PartialSuccess(c)

\* The same, for the requests whose rows are all inserts (old = None).
C20_RejectedInsertIsNotAnError ==
  \A c \in Clients :
    (SomeRowRejected(c) /\ \A u \in DOMAIN cl[c].data : cl[c].data[u][1] = None) =>
      PartialSuccess(c)

\* A request of two inserts, one rejected and one accepted.
C20_InsertsCase ==
  \E c \in Clients :
    /\ SomeRowRejected(c) /\ PartialSuccess(c)
    /\ DOMAIN cl[c].data = {U1, U2} /\ cl[c].written = {U2} /\ DOMAIN cl[c].rejected = {U1}

\* ------------------------------------------------- properties: the chains

\* The step that answers an insert_chains request with success.
ChainsInserted ==
  /\ hist' # hist
  /\ Stepping.op = "insert_chains" /\ Stepping.resp.kind = "ok"

LastWriterWins ==
  ChainsInserted =>
    LET M == Stepping.data
        before == View(kv, Stepping.index, "Chains")
        after == View(kv', Stepping.index, "Chains")
    IN /\ \A u \in DOMAIN M : u \in DOMAIN after /\ after[u] = M[u][2]
       /\ \A u \in Uids \ DOMAIN M :
            /\ (u \in DOMAIN after) = (u \in DOMAIN before)
            /\ u \in DOMAIN before => after[u] = before[u]

Listed == reply.op = "get_indexes" /\ reply.status = 200

\* The rows of the project that are not soft-deleted.
Live(project_uuid) ==
  {r \in catalog.rows : r.project_uuid = project_uuid /\ r.deleted_at = None}

ListOf(project_uuid) ==
  /\ Len(reply.body) = Cardinality(Live(project_uuid))
  /\ {reply.body[n].public_id : n \in DOMAIN reply.body} = {r.public_id : r \in Live(project_uuid)}
  /\ \A n \in DOMAIN reply.body : reply.body[n].project_uuid = project_uuid
  /\ \A n, m \in DOMAIN reply.body : n < m => reply.body[n].created_at >= reply.body[m].created_at

\* C22: a list response holds, for a project of the caller, each of its
\* indexes that is not soft-deleted once and no other index, later created
\* before earlier created.
C22_ListIsTheLiveIndexesNewestFirst ==
  Listed => \E p \in get_projects(reply.sub) : ListOf(p)

\* The same, for the two sqlite catalogs.
C22_SqliteListIsTheLiveIndexesNewestFirst ==
  (Listed /\ metadata # "dynamodb") => \E p \in get_projects(reply.sub) : ListOf(p)

\* A list of two indexes of proj1 while another row is left out, being
\* soft-deleted or of proj2.
C22_SqliteCase ==
  /\ Listed /\ metadata # "dynamodb"
  /\ Len(reply.body) >= 1 /\ ListOf("proj1")
  /\ \E r \in catalog.rows : r.deleted_at # None \/ r.project_uuid = "proj2"

\* The last response is an index read by its public id.
ReadBack == reply.op = "get_index" /\ reply.status = 200

\* The two responses show the same index, the size apart.
SameButSize(a, b) == [a EXCEPT !.size = None] = [b EXCEPT !.size = None]

\* C23: an index read by its public id equals, in every field shown but the
\* size, each index a creation has returned under that public id and no delete
\* has deleted since.
C23_ReadBackIsLossless ==
  ReadBack =>
    \A i \in issued :
      (i.public_id = reply.public_id /\ i.deleted_at = None) =>
        SameButSize(reply.body[1], Serialize(i, None))

\* The same, while the public id has been given to one index only.
C23_ReadBackOfTheOnlyIndexIsLossless ==
  ReadBack =>
    \A i \in issued :
      (/\ i.public_id = reply.public_id /\ i.deleted_at = None
       /\ \A j \in issued : j.public_id = i.public_id => j = i) =>
        SameButSize(reply.body[1], Serialize(i, None))

\* An index created by a request is read back, from each kind of catalog; the
\* dynamodb catalog has stored a created_at with a fraction of a second.
C23_OnlyIndexCase ==
  /\ ReadBack /\ reply.public_id = P2
  /\ \E i \in issued :
       /\ i.public_id = P2 /\ i.deleted_at = None
       /\ \A j \in issued : j.public_id = P2 => j = i
       /\ SameButSize(reply.body[1], Serialize(i, None))
       /\ metadata = "dynamodb" => i.created_at % 10^9 # 0

\* ------------------------------------------------ properties: the failures

\* The status the policy gives the failure a request met first.
PolicyStatus(why) ==
  CASE why = "signature" -> 403
    [] why \in {"expired", "payload", "unknown public_id", "framing"} -> 400
    [] why = "unknown project" -> 404
    [] why \in {"catalog", "storage"} -> 500

PolicyFailures ==
  {"signature", "expired", "payload", "unknown public_id", "framing", "unknown project",
   "catalog", "storage"}

AuthFailures == {"bearer", "auth0", "jwks", "kid", "jwk", "token expired", "validate", "sub"}

\* C25, as stated: of the failures of the authentication only the expired token
\* is answered 403, every other one 500.
C25_OnlyTheExpiredTokenIsForbidden ==
  scen = "err" =>
    \A i \in 1..Len(hist) :
      hist[i].why \in AuthFailures =>
        hist[i].status = IF hist[i].why = "token expired" THEN 403 ELSE 500

\* C25: of the failures of the authentication the expired token and the
\* missing or malformed bearer header are answered 403, every other one 500.
C25_ExpiredTokenAndBearerAreForbidden ==
  scen = "err" =>
    \A i \in 1..Len(hist) :
      hist[i].why \in AuthFailures =>
        hist[i].status = IF hist[i].why \in {"token expired", "bearer"} THEN 403 ELSE 500

\* C25's case: a request without a bearer header, its token expired, was answered 403.
C25_Witness ==
  /\ scen = "err"
  /\ Len(hist) = 1
  /\ hist[1].req.bearer = "missing"
  /\ hist[1].req.validate = "expired"
  /\ hist[1].err = "BearerError"
  /\ hist[1].status = 403

\* --------------------------------------------- properties: the lock timeout

\* Client c's get_for_update times out: its transaction is rolled back, nothing
\* is written, no lock is taken, no row is reported, the loop starts with 3 tries.
TimesOut(c) == cl[c].pc = "loop" /\ cl'[c].pc = "reread"
RolledBack(c) ==
  /\ kv' = kv
  /\ lock' = lock
  /\ EKey(cl[c], cl'[c].cur) \in DOMAIN lock
  /\ lock[EKey(cl[c], cl'[c].cur)] # c
  /\ cl'[c].rejected = cl[c].rejected
  /\ cl'[c].written = cl[c].written
  /\ cl'[c].retry = LOCK_TIMEOUT_RETRY

\* Client c's loop reads the row: a value found is the row's rejection and ends
\* the loop; nothing found at the last try ends the request with the timeout
\* error; nothing found before it leaves one try less.
Rereads(c) == cl[c].pc = "reread" /\ (cl'[c].pc # "reread" \/ cl'[c].retry # cl[c].retry)
ReadOutcome(c) ==
  LET r == cl[c]
      u == r.cur
      v == MapGet(kv, EKey(r, u))
  IN /\ kv' = kv
     /\ lock' = lock
     /\ IF v # None
        THEN /\ cl'[c].rejected = MapPut(r.rejected, u, v)
             /\ cl'[c].pc \in {"loop", "idle"}
             /\ cl'[c].pc = "idle" => cl'[c].resp = OkResp(cl'[c].rejected)
        ELSE IF r.retry = 1
        THEN /\ cl'[c].pc = "idle"
             /\ cl'[c].resp = ErrResp("Rocksdb")
        ELSE /\ cl'[c].pc = "reread"
             /\ cl'[c].cur = u
             /\ cl'[c].retry = r.retry - 1
             /\ cl'[c].rejected = r.rejected

LockTimeoutStep ==
  \A c \in Clients : (TimesOut(c) => RolledBack(c)) /\ (Rereads(c) => ReadOutcome(c))

\* The reads the loop of client c has left: 1 to 3, so it has made at most 2.
TriesLeft == \A c \in Clients : cl[c].pc = "reread" => cl[c].retry \in 1..LOCK_TIMEOUT_RETRY

\* C26: in the transactional backend a lock timeout on an upsert row rolls the
\* transaction back without a write; the stored value is then read outside any
\* transaction at most 3 times; the row is rejected with the first value read,
\* and when no read finds a value the request fails with the timeout error; the
\* retry loop always terminates.
C26_LockTimeoutIsABoundedReread ==
  /\ [][LockTimeoutStep]_vars
  /\ []TriesLeft
  /\ \A c \in Clients : (cl[c].pc = "reread") ~> (cl[c].pc # "reread")

\* C26's case: a request ended with the timeout error after its last try found
\* nothing stored.
C26_Witness ==
  \E c \in Clients :
    /\ backend \in {"rocksdb", "inline"}
    /\ cl[c].resp = ErrResp("Rocksdb")
    /\ lastRow.c = c
    /\ lastRow.via = "timeout"
    /\ lastRow.out = "error"
    /\ lastRow.pre = None

\* C27, as stated: a lock timeout on an upsert row never ends the request with
\* an error; the row is always a rejection, also when nothing is committed for
\* the uid the two clients insert.
C27_LockTimeoutIsNeverFatal ==
  /\ lastRow.via = "timeout" => lastRow.out = "rejected"
  /\ \A c \in Clients : cl[c].resp # ErrResp("Rocksdb")

\* C27 for the uid that has a committed value when the loop reads it: the row
\* is a rejection with that value.
C27_LockTimeoutOnAStoredUidIsARejection ==
  lastRow.via = "timeout" /\ lastRow.pre # None =>
    lastRow.out = "rejected" /\ lastRow.rep = lastRow.pre

\* The case of the stored uid: a row rejected after its lock timed out.
C27_StoredCase == lastRow.via = "timeout" /\ lastRow.pre # None /\ lastRow.out = "rejected"

\* ------------------------------------------ properties: the reported value

\* A row with old = Some(v) is reported rejected in this step.
RowReported ==
  /\ lastRow' # lastRow
  /\ lastRow'.out = "rejected"
  /\ lastRow'.old # None

\* What is stored for the row's (index, uid) when the step is taken: in heed.rs
\* as the open write transaction sees it.
StoredAtReport ==
  LET key == EKey(cl[lastRow'.c], lastRow'.uid)
  IN IF backend = "heed" THEN MapGet(wtxn, key) ELSE MapGet(kv, key)

ReportsStoredAndOther ==
  RowReported => lastRow'.rep = StoredAtReport /\ lastRow'.rep # lastRow'.old

\* C28, as stated: every rejected row with old = Some(v), in every backend and
\* under concurrent writers, reports a value s that differs from v and is stored
\* for (index, uid) at the moment the row is decided.
C28_RejectionReportsAnotherStoredValue == [][ReportsStoredAndOther]_vars

\* The rows decided with the stored value in hand: under the row lock or in the
\* write transaction.
DecidedInPlace == lastRow'.via = "cas" /\ backend # "dynamodb"

ReportsStored ==
  RowReported =>
    /\ lastRow'.rep = StoredAtReport
    /\ DecidedInPlace => lastRow'.rep # lastRow'.old /\ lastRow'.rep = lastRow'.pre

\* C28: every rejected row with old = Some(v) reports the value s stored for
\* (index, uid) at the moment it is reported; s differs from v when the row is
\* decided under the row lock or in the write transaction.
C28_RejectionReportsTheStoredValue == [][ReportsStored]_vars

\* C28's case: the conditional write on old = Some(v) failed against one value,
\* a concurrent writer stored v, and the follow-up read reported v.
C28_Witness ==
  /\ backend = "dynamodb"
  /\ lastRow.out = "rejected"
  /\ lastRow.old # None
  /\ lastRow.pre # lastRow.old
  /\ lastRow.rep = lastRow.old

\* --------------------------------------- properties: the write transaction

\* The rows of a request are read and written inside the one write transaction
\* that is open, and nothing is pending when none is.
ExclusiveTxn ==
  /\ \A c \in Clients : cl[c].pc \in {"intxn", "commit"} => writer = c
  /\ writer = NoClient => wtxn = EmptyMap

\* The request that ends in this step, if one does.
Ending == hist'[Len(hist')]

\* An upsert_entries or insert_chains ends with Ok in this step.
Commits ==
  /\ hist' # hist
  /\ Ending.resp.kind = "ok"
  /\ Ending.op \in {"upsert_entries", "insert_chains"}

\* The committed rows change by all of the request: every row it wrote has its
\* new value, the counter of its index has grown by the bytes it inserted, and
\* nothing else has changed.
AllOfTheRequest ==
  LET e == Ending
      index == CHOOSE i \in Indexes : i.public_id = e.index
      table == IF e.op = "insert_chains" THEN "Chains" ELSE "Entries"
      keys == {heed_key(index, table, u) : u \in e.written}
  IN /\ \A u \in e.written : MapGet(kv', heed_key(index, table, u)) = e.data[u][2]
     /\ \A x \in (DOMAIN kv \cup DOMAIN kv') \ (keys \cup {heed_size_key(index)}) :
          MapGet(kv', x) = MapGet(kv, x)
     /\ Counter(kv', index) = Counter(kv, index) + Inserted(e)

WholeRequests == kv' # kv => Commits /\ AllOfTheRequest

\* A fetch is answered in this step: with the committed rows.
Fetches ==
  /\ hist' # hist
  /\ Ending.op \in {"fetch_entries", "fetch_chains"}
  /\ Ending.resp.kind = "ok"
SnapshotRead ==
  Fetches =>
    LET index == CHOOSE i \in Indexes : i.public_id = Ending.index
        table == IF Ending.op = "fetch_chains" THEN "Chains" ELSE "Entries"
        found == {u \in Uids : heed_key(index, table, u) \in DOMAIN kv}
    IN /\ kv' = kv
       /\ Ending.resp.body = [u \in found |-> kv[heed_key(index, table, u)]]

WriteTxnStep == WholeRequests /\ SnapshotRead

\* C29: in heed.rs every upsert_entries and insert_chains runs in the one write
\* transaction that is open and commits once: the committed rows change only
\* when a request ends, by all of its writes and its size update, and a fetch
\* that runs meanwhile is answered with the committed rows, so with all of a
\* request or none of it.
C29_WriteTransactionIsAtomic == []ExclusiveTxn /\ [][WriteTxnStep]_vars

\* C29's case: while c1's write transaction holds a written row and has another
\* to go, c2's fetch of both uids was answered with neither.
C29_Witness ==
  /\ backend = "heed"
  /\ writer = "c1"
  /\ cl["c1"].written # {}
  /\ cl["c1"].todo # {}
  /\ cl["c2"].pc = "idle"
  /\ cl["c2"].op = "fetch_entries"
  /\ cl["c2"].resp = OkResp(EmptyMap)

\* ------------------------------------------ properties: the size of a row

\* An upsert row is decided in this step.
RowDecided == lastRow' # lastRow /\ lastRow'.out \in {"accepted", "rejected", "dropped"}

\* The counter of the row's index before and after the step: in heed.rs as the
\* open write transaction has it.
CounterBefore == Counter(IF backend = "heed" THEN wtxn ELSE kv, cl[lastRow'.c].index)
CounterAfter == Counter(IF backend = "heed" THEN wtxn' ELSE kv', cl[lastRow'.c].index)

RowSize ==
  backend \in {"rocksdb", "heed"} /\ RowDecided =>
    CounterAfter = CounterBefore +
      (IF lastRow'.out = "accepted" /\ lastRow'.old = None THEN Len(lastRow'.new) ELSE 0)

\* A step that decides no row and is no insert_chains leaves the counters
\* alone; the commit of heed.rs publishes the counter of its transaction.
InsertChainsEnds == hist' # hist /\ Ending.op = "insert_chains"
OnlyRowsCount ==
  backend \in {"rocksdb", "heed"} /\ lastRow' = lastRow /\ ~InsertChainsEnds =>
    \A i \in Indexes :
      Counter(kv', i) = Counter(IF writer # NoClient /\ writer' = NoClient THEN wtxn ELSE kv, i)

SizeStep == RowSize /\ OnlyRowsCount

\* C30: where a size counter is kept (rocksdb.rs, heed.rs), an accepted
\* overwrite and every rejected row leave the counter of the index unchanged;
\* only an accepted row with old = None changes it, by exactly len(new).
C30_OnlyInsertsCount == [][SizeStep]_vars

\* C30's case: a value of another length was written over a stored one, and the
\* counter still shows the bytes of the insert alone.
C30_Witness ==
  /\ backend \in {"rocksdb", "heed"}
  /\ lastRow.out = "accepted"
  /\ lastRow.old # None
  /\ Len(lastRow.new) # Len(lastRow.old)
  /\ Counter(IF backend = "heed" /\ writer # NoClient THEN wtxn ELSE kv, Index1) = Len(lastRow.old)

\* ------------------------------------------- properties: the merged counter

RECURSIVE RowOperands(_, _)
\* The operands an upsert has merged: len(new) of every row it wrote over nothing.
RowOperands(e, uids) ==
  IF uids = {} THEN <<>>
  ELSE LET u == MinUid(uids)
       IN (IF e.data[u][1] = None THEN <<Len(e.data[u][2])>> ELSE <<>>)
          \o RowOperands(e, uids \ {u})

\* The operands of a request: an upsert merges one for every inserted row as it
\* commits it, an insert_chains one for all its rows when it ends with Ok.
RequestOperands(e, over) ==
  IF e.op = "upsert_entries" THEN RowOperands(e, e.written)
  ELSE IF e.op = "insert_chains" /\ over /\ e.resp.kind = "ok"
  THEN <<SumLen([u \in DOMAIN e.data |-> e.data[u][2]])>>
  ELSE <<>>

RECURSIVE HistOperands(_)
HistOperands(h) ==
  IF h = <<>> THEN <<>> ELSE RequestOperands(Head(h), TRUE) \o HistOperands(Tail(h))

\* Every operand merged into the counter of the index so far.
Merged ==
  HistOperands(hist)
  \o (IF cl["c1"].pc = "idle" THEN <<>> ELSE RequestOperands(cl["c1"], FALSE))
  \o (IF cl["c2"].pc = "idle" THEN <<>> ELSE RequestOperands(cl["c2"], FALSE))

RECURSIVE Total(_)
Total(ops) == IF ops = <<>> THEN 0 ELSE Head(ops) + Total(Tail(ops))

Orders(n) == {f \in [1..n -> 1..n] : \A i, j \in 1..n : f[i] = f[j] => i = j}

\* The counter rocksdb computes when it applies the operands in the order f,
\* the first k of them merged with each other before the rest.
MergedIn(ops, f, k) ==
  LET seq == [i \in 1..Len(ops) |-> UsizeToBeBytes(ops[f[i]])]
      first == IF k = 0 THEN None ELSE merge_add(None, SubSeq(seq, 1, k))
  IN merge_add(first, SubSeq(seq, k + 1, Len(ops)))

ChainKey(r, u) == rocksdb_key(r.index, "Chains", u)

\* The bytes of the chain values of the request r.
ChainBytes(r) == SumLen([u \in DOMAIN r.data |-> r.data[u][2]])

\* One turn of the loop of client c: one chain row is put and nothing else,
\* the counter included.
OnePut(c) ==
  \E u \in cl[c].todo :
    /\ kv' = MapPut(kv, ChainKey(cl[c], u), cl[c].data[u][2])
    /\ cl'[c].todo = cl[c].todo \ {u}
    /\ cl'[c].written = cl[c].written \cup {u}
    /\ Counter(kv', cl[c].index) = Counter(kv, cl[c].index)

\* The request of client c ends with Ok: every row was put before, and the
\* step changes the counter alone, by the bytes of all the rows.
CountedLast(c) ==
  /\ cl[c].todo = {}
  /\ cl[c].written = DOMAIN cl[c].data
  /\ Counter(kv', cl[c].index) = Counter(kv, cl[c].index) + ChainBytes(cl[c])
  /\ DOMAIN kv' = DOMAIN kv \cup {rocksdb_size_key(cl[c].index)}
  /\ \A x \in DOMAIN kv : x # rocksdb_size_key(cl[c].index) => kv'[x] = kv[x]

\* The request of client c ends with an error: the store is as the puts left
\* it, the rows put are there and the counter has none of their bytes.
FailedPut(c) ==
  /\ cl[c].todo # {}
  /\ kv' = kv
  /\ cl'[c].written = cl[c].written
  /\ \A u \in cl[c].written : ChainKey(cl[c], u) \in DOMAIN kv'

PutsStep ==
  scen = "chn" =>
    \A c \in Clients :
      cl[c].pc = "puts" /\ cl'[c] # cl[c] =>
        IF cl'[c].pc = "puts" THEN OnePut(c)
        ELSE IF cl'[c].resp.kind = "ok" THEN CountedLast(c)
        ELSE FailedPut(c)

\* C38: insert_chains of rocksdb.rs puts each chain row by a step of its own,
\* outside any transaction, and merges the bytes of the request into the
\* counter in one step after the last put; when a put fails the rows put before
\* it stay stored and the counter is not incremented.
C38_ChainsArePutOneByOneAndCountedLast == [][PutsStep]_vars

\* C38's case: a reader was answered a chain row of an insert_chains that was
\* between two puts, the next put failed, and the row is stored while the
\* counter, which never decreases, has counted nothing.
C38_Witness ==
  /\ scen = "chn"
  /\ Len(hist) = 2
  /\ hist[1].op = "fetch_chains" /\ hist[1].resp.kind = "ok"
  /\ DOMAIN hist[1].resp.body = {U1}
  /\ hist[2].op = "insert_chains" /\ hist[2].resp.kind = "err"
  /\ hist[2].written = {U1}
  /\ rocksdb_key(Index1, "Chains", U1) \in DOMAIN kv
  /\ Counter(kv, Index1) = 0

\* ------------------------------------- properties: the rows of a failed upsert

\* The upsert_entries of client c ends in this step without Ok(rejected).
FailsNow(c) ==
  /\ cl[c].pc # "idle"
  /\ cl[c].op = "upsert_entries"
  /\ cl'[c].pc = "idle"
  /\ cl'[c].resp.kind # "ok"

\* The step accepts a row of a backend that commits row by row: the row is
\* stored by the step itself, whatever becomes of the rest of the request.
StoredAtOnce ==
  backend \in {"rocksdb", "dynamodb"} /\ lastRow' # lastRow /\ lastRow'.out = "accepted" =>
    /\ MapGet(kv', EKey(cl[lastRow'.c], lastRow'.uid)) = lastRow'.new
    /\ lastRow'.uid \in cl'[lastRow'.c].written

\* rocksdb.rs, dynamodb.rs: the error takes nothing back. The rows accepted
\* before it are stored, the counter keeps their bytes, and the response has
\* no rejected map, though rows may have been rejected.
AcceptedRowsStay(c) ==
  backend \in {"rocksdb", "dynamodb"} /\ FailsNow(c) =>
    /\ kv' = kv
    /\ \A u \in cl[c].written : MapGet(kv', EKey(cl[c], u)) # None
    /\ \A i \in Indexes : Counter(kv', i) = Counter(kv, i)
    /\ cl'[c].resp.body = EmptyMap

\* heed.rs: the store changes by the commit of a request that ends with Ok and
\* by nothing else, so a request that fails has stored no row and counted
\* nothing, whatever it had put in its transaction.
NothingStays(c) ==
  backend = "heed" =>
    /\ FailsNow(c) => kv' = kv /\ writer = c /\ writer' = NoClient
    /\ writer = c /\ kv' # kv => cl'[c].pc = "idle" /\ cl'[c].resp.kind = "ok"
    /\ writer = c /\ writer' = c => kv' = kv

FailedUpsertStep == StoredAtOnce /\ \A c \in Clients : AcceptedRowsStay(c) /\ NothingStays(c)

\* C37: in rocksdb.rs and dynamodb.rs each accepted row is committed by itself:
\* when upsert_entries ends with an error, the rows it had accepted stay stored
\* and counted, and the response has no rejected map; in heed.rs a request that
\* fails on any row stores no row and leaves the counter unchanged.
C37_FailedUpsertKeepsRowsButInHeed == [][FailedUpsertStep]_vars

\* C37's case: upsert_entries of rocksdb.rs has ended with an error after it
\* accepted a row, which is stored and counted.
C37_Witness ==
  /\ scen = "conc"
  /\ backend = "rocksdb"
  /\ \E c \in Clients :
       /\ cl[c].pc = "idle" /\ cl[c].op = "upsert_entries"
       /\ cl[c].resp.kind = "err"
       /\ cl[c].written = {U1}
       /\ MapGet(kv, EKey(cl[c], U1)) # None
       /\ Counter(kv, Index1) > 0

\* The same in dynamodb.rs, and in heed.rs a request that has failed after a
\* row was accepted inside its transaction, with nothing stored.
C37_DynamoDbCase ==
  /\ scen = "conc"
  /\ backend = "dynamodb"
  /\ \E c \in Clients :
       /\ cl[c].pc = "idle" /\ cl[c].resp.kind = "err"
       /\ cl[c].written # {}
       /\ \A u \in cl[c].written : MapGet(kv, EKey(cl[c], u)) # None
C37_HeedCase ==
  /\ scen = "conc"
  /\ backend = "heed"
  /\ kv = EmptyMap
  /\ lastRow.out = "accepted"
  /\ \E c \in Clients : cl[c].pc = "idle" /\ cl[c].resp.kind = "err" /\ lastRow.c = c

\* ------------------------------------- properties: the check before the store

\* The step is a request on a data-plane endpoint, with what its check found.
DataRequest == nreq' = nreq + 1 /\ sigcall'.op \in DataOps

\* The request is refused: its framing is too short, its MAC does not match, it
\* has expired, or its payload does not decode.
RefusedRequest ==
  /\ DataRequest
  /\ sigcall'.err # "ok"
  /\ \/ sigcall'.err = "BadRequest" /\ sigcall'.why \in {"no signature", "no timestamp", "expired"}
     \/ sigcall'.err = "InvalidSignature"
     \/ sigcall'.err = "Findex"

\* Nothing of the store is touched: no row of either table, no counter, no
\* lock, no transaction, and no backend operation is started.
StoreUntouched ==
  /\ kv' = kv
  /\ \A i \in Indexes : Counter(kv', i) = Counter(kv, i)
  /\ lock' = lock /\ writer' = writer /\ wtxn' = wtxn /\ lastRow' = lastRow
  /\ cl'["c1"].pc = "idle"
  /\ cl'["c1"].resp = ErrResp(sigcall'.err)

CheckFirstStep ==
  scen = "sig" =>
    /\ DataRequest /\ sigcall'.err # "ok" => RefusedRequest /\ StoreUntouched
    /\ kv' # kv \/ lock' # lock =>
         /\ sigcall'.err = "ok"
         /\ sigcall'.sidx = sigcall'.idx /\ sigcall'.sop = sigcall'.op
         /\ sigcall'.tamper = 0 /\ sigcall'.len = sigcall'.full
         /\ sigcall'.ts >= sigcall'.now

\* C36: on the four data-plane endpoints the body is verified and its payload
\* decoded before the store is accessed: a request refused for its framing, its
\* MAC, its expiration or its payload leaves every Entries row, every Chains
\* row and the size counter as they were, and every step that writes belongs to
\* a request whose body passed.
C36_CheckBeforeStorage == [][CheckFirstStep]_vars

\* C36's case: an insert_chains whose signed payload does not decode is refused
\* while the store holds a chain row and its bytes.
C36_Witness ==
  /\ scen = "sig"
  /\ sigcall.op = "insert_chains" /\ sigcall.err = "Findex"
  /\ cl["c1"].resp = ErrResp("Findex")
  /\ MapGet(kv, Key(backend, Index1, "Chains", U1)) = VA
  /\ backend = "rocksdb" /\ Counter(kv, Index1) = Len(VA)

\* --------------------------------------- properties: the cache of the indexes

\* The step is a data-plane request: its extractor looks the public id up.
Lookup == nreq' = nreq + 1 /\ reply'.op \in DataOps

\* What the catalog would answer to get_index at the time of the lookup.
InCatalog(p) == metadata_get_index(catalog.rows, p)

\* The lookup of the step, case by case.
ReadThrough ==
  LET p == reply'.public_id
  IN IF p \in DOMAIN cache
     THEN /\ cl'["c1"].index = cache[p]
          /\ cache' = cache
     ELSE IF InCatalog(p) # {}
     THEN /\ cl'["c1"].index \in InCatalog(p)
          /\ cache' = MapPut(cache, p, cl'["c1"].index)
     ELSE /\ reply'.err = "BadRequest"
          /\ cl'["c1"].pc = "idle"
          /\ cache' = cache

\* C33: get_index_with_cache is read-through. A lookup of a cached public id
\* returns the cached Index, whatever the catalog holds, and leaves the cache
\* as it is; a miss on a live index returns what the catalog holds and puts it
\* in the cache; a miss on an unknown or deleted public id returns None, so
\* that the request is refused as unknown, and leaves the cache unchanged.
C33_CacheIsReadThrough == [][scen = "cat" /\ Lookup => ReadThrough]_vars

\* C33's case: a lookup of a deleted index that was never cached is refused,
\* and the cache is still empty.
C33_Witness ==
  /\ scen = "cat"
  /\ reply.op \in DataOps /\ reply.gone /\ ~reply.hit
  /\ reply.err = "BadRequest"
  /\ cache = EmptyMap

\* The other cases: a miss on a live index, which is cached, and a hit.
C33_MissCase ==
  /\ scen = "cat"
  /\ reply.op \in DataOps /\ ~reply.hit /\ reply.err = "ok"
  /\ reply.public_id \in DOMAIN cache
C33_HitCase ==
  /\ scen = "cat"
  /\ reply.op \in DataOps /\ reply.hit /\ reply.err = "ok"

\* C34: once a lookup of p and a delete_index(p) have both finished, in
\* whatever order their steps were taken, the cache holds no entry for p.
C34_DeletedIndexLeavesTheCache ==
  scen = "cat" /\ cl["c1"].pc = "idle" => \A p \in gone : p \notin DOMAIN cache

\* The part of C34 the code keeps: a deleted index that is not in the cache
\* does not come into it while no index is created again under its public id.
SameRows(p) == {r \in catalog'.rows : r.public_id = p} = {r \in catalog.rows : r.public_id = p}
C34_DeletedIndexIsNotCachedAgain ==
  [][scen = "cat" => \A p \in gone : p \notin DOMAIN cache /\ SameRows(p) => p \notin DOMAIN cache']_vars

\* The case of the part: a lookup after the delete of an index never cached.
C34_UncachedCase ==
  /\ scen = "cat"
  /\ reply.op \in DataOps /\ reply.gone /\ ~reply.hit
  /\ reply.public_id \notin DOMAIN cache
  /\ metadata = "sqlite"

\* The fields of an Index a signature and the ownership are checked with.
AuthFields == KeyFields \cup {"authz_id"}
SameAuth(i, r) == \A f \in AuthFields : i[f] = r[f]
CacheAgrees ==
  \A p \in DOMAIN cache : \A r \in catalog.rows : r.public_id = p => SameAuth(cache[p], r)

\* C35: each Index in the cache has the four operation keys and the authz_id
\* of the catalog's record with its public id.
C35_CacheHasTheCatalogsKeys == scen = "cat" => CacheAgrees

\* C35 where a public id cannot be given twice (sqlite.rs, main.rs).
C35_CacheHasTheCatalogsKeysInSqlite == scen = "cat" /\ metadata # "dynamodb" => CacheAgrees

\* Its case: the index is cached, then deleted, and its record is still there.
C35_SqliteCase ==
  /\ scen = "cat" /\ metadata = "sqlite"
  /\ P1 \in DOMAIN cache /\ P1 \in gone
  /\ \E r \in catalog.rows : r.public_id = P1 /\ SameAuth(cache[P1], r)

\* -------------------------------------- properties: the rows sent in parallel

\* The rows of a running request: not yet sent, in flight, accepted, rejected.
RowSets(r) == <<r.todo, DOMAIN r.jobs, r.written, DOMAIN r.rejected>>

\* Every row is in one of the four sets and in no two of them.
EachRowOnce(r) ==
  LET sets == RowSets(r)
  IN /\ sets[1] \cup sets[2] \cup sets[3] \cup sets[4] = DOMAIN r.data
     /\ \A i, j \in 1..4 : i # j => sets[i] \cap sets[j] = {}

\* What a request answers when its rows are decided against the store s, each
\* row by itself: the rows whose old value is not the stored one, with the
\* stored value; and the store it leaves.
ParKey(u) == dynamodb_key(Index1, "Entries", u)
RejectedOf(s, data) ==
  [u \in {w \in DOMAIN data : ~CasCondition(data[w][1], MapGet(s, ParKey(w)))} |-> MapGet(s, ParKey(u))]
StoreAfter(s, data) ==
  LET acc == DOMAIN data \ DOMAIN RejectedOf(s, data)
  IN [k \in DOMAIN s \cup {ParKey(u) : u \in acc} |->
        IF \E u \in acc : ParKey(u) = k
        THEN data[CHOOSE u \in acc : ParKey(u) = k][2]
        ELSE s[k]]

\* The store before the i-th request of the history.
RECURSIVE StoreBefore(_)
StoreBefore(i) == IF i = 1 THEN EmptyMap ELSE StoreAfter(StoreBefore(i - 1), hist[i - 1].data)

C32_FullCase ==
  /\ scen = "par"
  /\ Cardinality(DOMAIN cl["c1"].jobs) = DYNAMODB_NUMBER_OF_PARALLEL_UPSERT_REQUEST
  /\ cl["c1"].todo # {}
C32_OrderCase ==
  /\ scen = "par"
  /\ Len(hist) = 2
  /\ DOMAIN hist[2].resp.body = {U1, U2}
  /\ lastRow.uid = U1 /\ lastRow.out = "rejected"

\* ------------------------------------------- properties: the retrying clients

\* The rounds that are over, and whether a row was accepted in round r.
RoundsOver == Len(hist) \div Cardinality(Clients)
AcceptedIn(r) == \E i \in {2 * r - 1, 2 * r} : hist[i].written # {}

\* C39, as stated: in every round at least one client's row is accepted.
C39_EveryRoundAccepts ==
  scen = "rty" => \A r \in 1..RoundsOver : AcceptedIn(r)

\* Where no lock is waited for (heed.rs, dynamodb.rs) every round accepts a
\* row; in rocksdb.rs a lock timeout can reject a row whose old value is the
\* stored one, and of two rounds that follow each other one accepts a row.
RoundsProgress ==
  \A r \in 1..RoundsOver :
    \/ AcceptedIn(r)
    \/ /\ backend = "rocksdb"
       /\ r > 1 => AcceptedIn(r - 1)

\* A request that began with no other request running and with the stored
\* value as its old value, and during which no other request began, is accepted.
SoloAccepted ==
  \A c \in Clients :
    cl[c].pc = "idle" /\ cl[c].op = "upsert_entries" /\ cl[c].solo =>
      /\ cl[c].resp = OkResp(EmptyMap)
      /\ cl[c].written = {U1}

\* C39, amended: under weak fairness of the server's steps every request of
\* the retrying clients is answered; in heed.rs and dynamodb.rs every round
\* accepts a row, in rocksdb.rs at least one of every two rounds that follow
\* each other; and a retry that no other request overlaps, sent with the
\* stored value as old value, is accepted.
C39_RetryingClientsProgress ==
  /\ [](scen = "rty" => RoundsProgress /\ SoloAccepted)
  /\ \A c \in Clients : (scen = "rty" /\ cl[c].pc # "idle") ~> (cl[c].pc = "idle")

\* C39's case: in rocksdb.rs a round without an accepted row is followed by a
\* round in which the retries run one after the other and the first is accepted.
C39_Witness ==
  /\ scen = "rty" /\ backend = "rocksdb"
  /\ Len(hist) = 6
  /\ ~AcceptedIn(2)
  /\ hist[3].resp.kind = "ok" /\ hist[4].resp.kind = "ok"
  /\ AcceptedIn(3)
  /\ \E c \in Clients : cl[c].solo /\ cl[c].written = {U1} /\ cl[c].data[U1][1] # None

====
